---- MODULE Spec2Model ----
(***************************************************************************)
(* OG USB (og_usb.py): the interactive session loop, device discovery,     *)
(* the filesystem recommendation and the format pipeline                   *)
(* Confirm -> Wipe -> Partition -> Format -> Verify.                       *)
(*                                                                         *)
(* Strings are sequences of one-character strings, so that lower(),       *)
(* strip(), int(), isdigit() and concatenation are computed character by   *)
(* character.  A size in bytes is the record [gib, rem] standing for       *)
(* gib * 2^30 + rem bytes with 0 <= rem < 2^30 (TLC integers are 32 bits   *)
(* wide and a 32 GiB capacity is 2^35 bytes).                              *)
(***************************************************************************)
EXTENDS Integers, Sequences, FiniteSets, TLC

\* ------------------------------------------------------------------------
\* Bounds of the model
\* ------------------------------------------------------------------------

\* most lines of one lsblk inventory
MaxInventory == 2

\* ------------------------------------------------------------------------
\* Strings
\* ------------------------------------------------------------------------

Digits == <<"0", "1", "2", "3", "4", "5", "6", "7", "8", "9">>

Range(s) == {s[i] : i \in 1..Len(s)}
SetMin(S) == CHOOSE x \in S : \A y \in S : x <= y
SetMax(S) == CHOOSE x \in S : \A y \in S : x >= y
IndexOf(s, c) == SetMin({i \in 1..Len(s) : s[i] = c})

\* A string of this module can hold the ASCII characters but the grave
\* accent, and the characters of the Basic Multilingual Plane whose code
\* point has a low byte of 0x80 or more.  The tables below give Python's
\* classification and case mapping of exactly those characters.

\* the decimal digits beyond 0-9 that int() converts, by value: the set at
\* index d + 1 holds the digits of value d
OtherDecimalDigits ==
    <<
     {"۰", "߀", "০", "૦", "௦", "೦", "෦", "໐", "႐", "០", "᧐", "᪀", "᪐", "᮰", "꣐", "꧐", "꧰", "꯰"},
     {"۱", "߁", "১", "૧", "௧", "೧", "෧", "໑", "႑", "១", "᧑", "᪁", "᪑", "᮱", "꣑", "꧑", "꧱", "꯱"},
     {"۲", "߂", "২", "૨", "௨", "೨", "෨", "໒", "႒", "២", "᧒", "᪂", "᪒", "᮲", "꣒", "꧒", "꧲", "꯲"},
     {"۳", "߃", "৩", "૩", "௩", "೩", "෩", "໓", "႓", "៣", "᧓", "᪃", "᪓", "᮳", "꣓", "꧓", "꧳", "꯳"},
     {"۴", "߄", "৪", "૪", "௪", "೪", "෪", "໔", "႔", "៤", "᧔", "᪄", "᪔", "᮴", "꣔", "꧔", "꧴", "꯴"},
     {"۵", "߅", "৫", "૫", "௫", "೫", "෫", "໕", "႕", "៥", "᧕", "᪅", "᪕", "᮵", "꣕", "꧕", "꧵", "꯵"},
     {"۶", "߆", "৬", "૬", "௬", "೬", "෬", "໖", "႖", "៦", "᧖", "᪆", "᪖", "᮶", "꣖", "꧖", "꧶", "꯶"},
     {"۷", "߇", "৭", "૭", "௭", "೭", "෭", "໗", "႗", "៧", "᧗", "᪇", "᪗", "᮷", "꣗", "꧗", "꧷", "꯷"},
     {"۸", "߈", "৮", "૮", "௮", "೮", "෮", "໘", "႘", "៨", "᧘", "᪈", "᪘", "᮸", "꣘", "꧘", "꧸", "꯸"},
     {"۹", "߉", "৯", "૯", "௯", "೯", "෯", "໙", "႙", "៩", "᧙", "᪉", "᪙", "᮹", "꣙", "꧙", "꧹", "꯹"}
    >>

\* the characters str.isdigit() holds of that are not decimal digits
\* (superscripts, subscripts, circled digits and the like)
OtherDigits ==
    {
     "²", "³", "¹", "᧚", "₀", "₁", "₂", "₃", "₄", "₅", "₆", "₇", "₈", "₉", "⒈", "⒉", "⒊", "⒋",
     "⒌", "⒍", "⒎", "⒏", "⒐", "⓪", "⓵", "⓶", "⓷", "⓸", "⓹", "⓺", "⓻", "⓼", "⓽", "⓿", "➀", "➁",
     "➂", "➃", "➄", "➅", "➆", "➇", "➈", "➊", "➋", "➌", "➍", "➎", "➏", "➐", "➑", "➒"
    }

\* str.isdecimal() on one character: the digits int() converts
isdecimal(c) == c \in Range(Digits) \/ \E d \in 1..10 : c \in OtherDecimalDigits[d]
\* the value of a decimal digit
DecimalValue(c) ==
    IF c \in Range(Digits) THEN IndexOf(Digits, c) - 1
    ELSE (CHOOSE d \in 1..10 : c \in OtherDecimalDigits[d]) - 1
\* str.isdigit() on one character
isdigit(c) == isdecimal(c) \/ c \in OtherDigits

\* whitespace as str.strip() sees it (str.isspace()): tab, line feed,
\* vertical tab, form feed, carriage return, the separators U+001C to U+001F,
\* space, next line U+0085, no-break space U+00A0 and the Ogham space mark
\* U+1680
IsSpace(c) ==
    c \in {"\t", "\n", "", "\f", "\r", "", "", "", "", " ", "", " ", " "}
\* whitespace as int() skips it around the number: the same characters but
\* for the separators U+001C to U+001F, which int() rejects
IsIntSpace(c) == IsSpace(c) /\ c \notin {"", "", "", ""}

\* a character without a value: its image under the case mapping is a
\* character no string of this module can hold
Unwritable(c) == CHOOSE x \in {} : x = c

\* str.lower(): the characters it changes into a character this module can
\* hold, and at the same index what it changes them into
LowerFrom ==
    <<
     "A", "B", "C", "D", "E", "F", "G", "H", "I", "J", "K", "L", "M", "N", "O", "P", "Q", "R",
     "S", "T", "U", "V", "W", "X", "Y", "Z", "À", "Á", "Â", "Ã", "Ä", "Å", "Æ", "Ç", "È", "É",
     "Ê", "Ë", "Ì", "Í", "Î", "Ï", "Ð", "Ñ", "Ò", "Ó", "Ô", "Õ", "Ö", "Ø", "Ù", "Ú", "Û", "Ü",
     "Ý", "Þ", "Ƃ", "Ƅ", "Ƈ", "Ƌ", "Ǝ", "Ƒ", "Ƙ", "Ơ", "Ƣ", "Ƥ", "Ʀ", "Ƨ", "Ʃ", "Ƭ", "Ʈ", "Ư",
     "Ʊ", "Ʋ", "Ƴ", "Ƶ", "Ʒ", "Ƹ", "Ƽ", "Ǆ", "ǅ", "Ǉ", "ǈ", "Ǌ", "ǋ", "Ǎ", "Ǐ", "Ǒ", "Ǔ", "Ǖ",
     "Ǘ", "Ǚ", "Ǜ", "Ǟ", "Ǡ", "Ǣ", "Ǥ", "Ǧ", "Ǩ", "Ǫ", "Ǭ", "Ǯ", "Ǳ", "ǲ", "Ǵ", "Ƕ", "Ƿ", "Ǹ",
     "Ǻ", "Ǽ", "Ǿ", "Ά", "Έ", "Ή", "Ί", "Ό", "Ύ", "Ώ", "Α", "Β", "Γ", "Δ", "Ε", "Ζ", "Η", "Θ",
     "Ι", "Κ", "Λ", "Μ", "Ν", "Ξ", "Ο", "Π", "Ρ", "Σ", "Τ", "Υ", "Φ", "Χ", "Ψ", "Ω", "Ϊ", "Ϋ",
     "Ϗ", "Ϙ", "Ϛ", "Ϝ", "Ϟ", "Ϡ", "Ϣ", "Ϥ", "Ϧ", "Ϩ", "Ϫ", "Ϭ", "Ϯ", "ϴ", "Ϸ", "Ϲ", "Ϻ", "Ҁ",
     "Ҋ", "Ҍ", "Ҏ", "Ґ", "Ғ", "Ҕ", "Җ", "Ҙ", "Қ", "Ҝ", "Ҟ", "Ҡ", "Ң", "Ҥ", "Ҧ", "Ҩ", "Ҫ", "Ҭ",
     "Ү", "Ұ", "Ҳ", "Ҵ", "Ҷ", "Ҹ", "Һ", "Ҽ", "Ҿ", "Ӏ", "Ӂ", "Ӄ", "Ӆ", "Ӈ", "Ӊ", "Ӌ", "Ӎ", "Ӑ",
     "Ӓ", "Ӕ", "Ӗ", "Ә", "Ӛ", "Ӝ", "Ӟ", "Ӡ", "Ӣ", "Ӥ", "Ӧ", "Ө", "Ӫ", "Ӭ", "Ӯ", "Ӱ", "Ӳ", "Ӵ",
     "Ӷ", "Ӹ", "Ӻ", "Ӽ", "Ӿ", "Ꮀ", "Ꮁ", "Ꮂ", "Ꮃ", "Ꮄ", "Ꮅ", "Ꮆ", "Ꮇ", "Ꮈ", "Ꮉ", "Ꮊ", "Ꮋ", "Ꮌ",
     "Ꮍ", "Ꮎ", "Ꮏ", "Ꮐ", "Ꮑ", "Ꮒ", "Ꮓ", "Ꮔ", "Ꮕ", "Ꮖ", "Ꮗ", "Ꮘ", "Ꮙ", "Ꮚ", "Ꮛ", "Ꮜ", "Ꮝ", "Ꮞ",
     "Ꮟ", "Ꮠ", "Ꮡ", "Ꮢ", "Ꮣ", "Ꮤ", "Ꮥ", "Ꮦ", "Ꮧ", "Ꮨ", "Ꮩ", "Ꮪ", "Ꮫ", "Ꮬ", "Ꮭ", "Ꮮ", "Ꮯ", "Ꮰ",
     "Ꮱ", "Ꮲ", "Ꮳ", "Ꮴ", "Ꮵ", "Ꮶ", "Ꮷ", "Ꮸ", "Ꮹ", "Ꮺ", "Ꮻ", "Ꮼ", "Ꮽ", "Ꮾ", "Ꮿ", "Ᏸ", "Ᏹ", "Ᏺ",
     "Ᏻ", "Ᏼ", "Ᏽ", "Ა", "Ბ", "Გ", "Დ", "Ე", "Ვ", "Ზ", "Თ", "Ი", "Კ", "Ლ", "Მ", "Ნ", "Ო", "Პ",
     "Ჟ", "Რ", "Ს", "Ტ", "Უ", "Ფ", "Ქ", "Ღ", "Ყ", "Შ", "Ჩ", "Ც", "Ძ", "Წ", "Ჭ", "Ხ", "Ჯ", "Ჰ",
     "Ჱ", "Ჲ", "Ჳ", "Ჴ", "Ჵ", "Ჶ", "Ჷ", "Ჸ", "Ჹ", "Ჺ", "Ჽ", "Ჾ", "Ჿ", "Ẁ", "Ẃ", "Ẅ", "Ẇ", "Ẉ",
     "Ẋ", "Ẍ", "Ẏ", "Ẑ", "Ẓ", "Ẕ", "ẞ", "Ạ", "Ả", "Ấ", "Ầ", "Ẩ", "Ẫ", "Ậ", "Ắ", "Ằ", "Ẳ", "Ẵ",
     "Ặ", "Ẹ", "Ẻ", "Ẽ", "Ế", "Ề", "Ể", "Ễ", "Ệ", "Ỉ", "Ị", "Ọ", "Ỏ", "Ố", "Ồ", "Ổ", "Ỗ", "Ộ",
     "Ớ", "Ờ", "Ở", "Ỡ", "Ợ", "Ụ", "Ủ", "Ứ", "Ừ", "Ử", "Ữ", "Ự", "Ỳ", "Ỵ", "Ỷ", "Ỹ", "Ỻ", "Ỽ",
     "Ỿ", "ᾈ", "ᾉ", "ᾊ", "ᾋ", "ᾌ", "ᾍ", "ᾎ", "ᾏ", "ᾘ", "ᾙ", "ᾚ", "ᾛ", "ᾜ", "ᾝ", "ᾞ", "ᾟ", "ᾨ",
     "ᾩ", "ᾪ", "ᾫ", "ᾬ", "ᾭ", "ᾮ", "ᾯ", "Ᾰ", "Ᾱ", "ᾼ", "ῌ", "Ῐ", "Ῑ", "Ῠ", "Ῡ", "Ῥ", "ῼ", "Ↄ",
     "Ⓐ", "Ⓑ", "Ⓒ", "Ⓓ", "Ⓔ", "Ⓕ", "Ⓖ", "Ⓗ", "Ⓘ", "Ⓙ", "Ⓚ", "Ⓛ", "Ⓜ", "Ⓝ", "Ⓞ", "Ⓟ", "Ⓠ", "Ⓡ",
     "Ⓢ", "Ⓣ", "Ⓤ", "Ⓥ", "Ⓦ", "Ⓧ", "Ⓨ", "Ⓩ", "Ⲁ", "Ⲃ", "Ⲅ", "Ⲇ", "Ⲉ", "Ⲋ", "Ⲍ", "Ⲏ", "Ⲑ", "Ⲓ",
     "Ⲕ", "Ⲗ", "Ⲙ", "Ⲛ", "Ⲝ", "Ⲟ", "Ⲡ", "Ⲣ", "Ⲥ", "Ⲧ", "Ⲩ", "Ⲫ", "Ⲭ", "Ⲯ", "Ⲱ", "Ⲳ", "Ⲵ", "Ⲷ",
     "Ⲹ", "Ⲻ", "Ⲽ", "Ⲿ", "Ⳁ", "Ⳃ", "Ⳅ", "Ⳇ", "Ⳉ", "Ⳋ", "Ⳍ", "Ⳏ", "Ⳑ", "Ⳓ", "Ⳕ", "Ⳗ", "Ⳙ", "Ⳛ",
     "Ⳝ", "Ⳟ", "Ⳡ", "Ⳣ", "Ⳬ", "Ⳮ", "Ⳳ", "Ꚁ", "Ꚃ", "Ꚅ", "Ꚇ", "Ꚉ", "Ꚋ", "Ꚍ", "Ꚏ", "Ꚑ", "Ꚓ", "Ꚕ",
     "Ꚗ", "Ꚙ", "Ꚛ", "Ꞁ", "Ꞃ", "Ꞅ", "Ꞇ", "Ꞌ", "Ꞑ", "Ꞓ", "Ꞗ", "Ꞙ", "Ꞛ", "Ꞝ", "Ꞟ", "Ꞡ", "Ꞣ", "Ꞥ",
     "Ꞧ", "Ꞩ", "Ʞ", "Ʇ", "Ʝ", "Ꞵ", "Ꞷ", "Ꞹ", "Ꞻ", "Ꞽ", "Ꞿ", "Ꟁ", "Ꟃ", "Ꞔ", "Ʂ", "Ᶎ", "Ꟈ", "Ꟊ",
     "Ꟑ", "Ꟗ", "Ꟙ", "Ꟶ"
    >>
LowerTo ==
    <<
     "a", "b", "c", "d", "e", "f", "g", "h", "i", "j", "k", "l", "m", "n", "o", "p", "q", "r",
     "s", "t", "u", "v", "w", "x", "y", "z", "à", "á", "â", "ã", "ä", "å", "æ", "ç", "è", "é",
     "ê", "ë", "ì", "í", "î", "ï", "ð", "ñ", "ò", "ó", "ô", "õ", "ö", "ø", "ù", "ú", "û", "ü",
     "ý", "þ", "ƃ", "ƅ", "ƈ", "ƌ", "ǝ", "ƒ", "ƙ", "ơ", "ƣ", "ƥ", "ʀ", "ƨ", "ʃ", "ƭ", "ʈ", "ư",
     "ʊ", "ʋ", "ƴ", "ƶ", "ʒ", "ƹ", "ƽ", "ǆ", "ǆ", "ǉ", "ǉ", "ǌ", "ǌ", "ǎ", "ǐ", "ǒ", "ǔ", "ǖ",
     "ǘ", "ǚ", "ǜ", "ǟ", "ǡ", "ǣ", "ǥ", "ǧ", "ǩ", "ǫ", "ǭ", "ǯ", "ǳ", "ǳ", "ǵ", "ƕ", "ƿ", "ǹ",
     "ǻ", "ǽ", "ǿ", "ά", "έ", "ή", "ί", "ό", "ύ", "ώ", "α", "β", "γ", "δ", "ε", "ζ", "η", "θ",
     "ι", "κ", "λ", "μ", "ν", "ξ", "ο", "π", "ρ", "σ", "τ", "υ", "φ", "χ", "ψ", "ω", "ϊ", "ϋ",
     "ϗ", "ϙ", "ϛ", "ϝ", "ϟ", "ϡ", "ϣ", "ϥ", "ϧ", "ϩ", "ϫ", "ϭ", "ϯ", "θ", "ϸ", "ϲ", "ϻ", "ҁ",
     "ҋ", "ҍ", "ҏ", "ґ", "ғ", "ҕ", "җ", "ҙ", "қ", "ҝ", "ҟ", "ҡ", "ң", "ҥ", "ҧ", "ҩ", "ҫ", "ҭ",
     "ү", "ұ", "ҳ", "ҵ", "ҷ", "ҹ", "һ", "ҽ", "ҿ", "ӏ", "ӂ", "ӄ", "ӆ", "ӈ", "ӊ", "ӌ", "ӎ", "ӑ",
     "ӓ", "ӕ", "ӗ", "ә", "ӛ", "ӝ", "ӟ", "ӡ", "ӣ", "ӥ", "ӧ", "ө", "ӫ", "ӭ", "ӯ", "ӱ", "ӳ", "ӵ",
     "ӷ", "ӹ", "ӻ", "ӽ", "ӿ", "ꮀ", "ꮁ", "ꮂ", "ꮃ", "ꮄ", "ꮅ", "ꮆ", "ꮇ", "ꮈ", "ꮉ", "ꮊ", "ꮋ", "ꮌ",
     "ꮍ", "ꮎ", "ꮏ", "ꮐ", "ꮑ", "ꮒ", "ꮓ", "ꮔ", "ꮕ", "ꮖ", "ꮗ", "ꮘ", "ꮙ", "ꮚ", "ꮛ", "ꮜ", "ꮝ", "ꮞ",
     "ꮟ", "ꮠ", "ꮡ", "ꮢ", "ꮣ", "ꮤ", "ꮥ", "ꮦ", "ꮧ", "ꮨ", "ꮩ", "ꮪ", "ꮫ", "ꮬ", "ꮭ", "ꮮ", "ꮯ", "ꮰ",
     "ꮱ", "ꮲ", "ꮳ", "ꮴ", "ꮵ", "ꮶ", "ꮷ", "ꮸ", "ꮹ", "ꮺ", "ꮻ", "ꮼ", "ꮽ", "ꮾ", "ꮿ", "ᏸ", "ᏹ", "ᏺ",
     "ᏻ", "ᏼ", "ᏽ", "ა", "ბ", "გ", "დ", "ე", "ვ", "ზ", "თ", "ი", "კ", "ლ", "მ", "ნ", "ო", "პ",
     "ჟ", "რ", "ს", "ტ", "უ", "ფ", "ქ", "ღ", "ყ", "შ", "ჩ", "ც", "ძ", "წ", "ჭ", "ხ", "ჯ", "ჰ",
     "ჱ", "ჲ", "ჳ", "ჴ", "ჵ", "ჶ", "ჷ", "ჸ", "ჹ", "ჺ", "ჽ", "ჾ", "ჿ", "ẁ", "ẃ", "ẅ", "ẇ", "ẉ",
     "ẋ", "ẍ", "ẏ", "ẑ", "ẓ", "ẕ", "ß", "ạ", "ả", "ấ", "ầ", "ẩ", "ẫ", "ậ", "ắ", "ằ", "ẳ", "ẵ",
     "ặ", "ẹ", "ẻ", "ẽ", "ế", "ề", "ể", "ễ", "ệ", "ỉ", "ị", "ọ", "ỏ", "ố", "ồ", "ổ", "ỗ", "ộ",
     "ớ", "ờ", "ở", "ỡ", "ợ", "ụ", "ủ", "ứ", "ừ", "ử", "ữ", "ự", "ỳ", "ỵ", "ỷ", "ỹ", "ỻ", "ỽ",
     "ỿ", "ᾀ", "ᾁ", "ᾂ", "ᾃ", "ᾄ", "ᾅ", "ᾆ", "ᾇ", "ᾐ", "ᾑ", "ᾒ", "ᾓ", "ᾔ", "ᾕ", "ᾖ", "ᾗ", "ᾠ",
     "ᾡ", "ᾢ", "ᾣ", "ᾤ", "ᾥ", "ᾦ", "ᾧ", "ᾰ", "ᾱ", "ᾳ", "ῃ", "ῐ", "ῑ", "ῠ", "ῡ", "ῥ", "ῳ", "ↄ",
     "ⓐ", "ⓑ", "ⓒ", "ⓓ", "ⓔ", "ⓕ", "ⓖ", "ⓗ", "ⓘ", "ⓙ", "ⓚ", "ⓛ", "ⓜ", "ⓝ", "ⓞ", "ⓟ", "ⓠ", "ⓡ",
     "ⓢ", "ⓣ", "ⓤ", "ⓥ", "ⓦ", "ⓧ", "ⓨ", "ⓩ", "ⲁ", "ⲃ", "ⲅ", "ⲇ", "ⲉ", "ⲋ", "ⲍ", "ⲏ", "ⲑ", "ⲓ",
     "ⲕ", "ⲗ", "ⲙ", "ⲛ", "ⲝ", "ⲟ", "ⲡ", "ⲣ", "ⲥ", "ⲧ", "ⲩ", "ⲫ", "ⲭ", "ⲯ", "ⲱ", "ⲳ", "ⲵ", "ⲷ",
     "ⲹ", "ⲻ", "ⲽ", "ⲿ", "ⳁ", "ⳃ", "ⳅ", "ⳇ", "ⳉ", "ⳋ", "ⳍ", "ⳏ", "ⳑ", "ⳓ", "ⳕ", "ⳗ", "ⳙ", "ⳛ",
     "ⳝ", "ⳟ", "ⳡ", "ⳣ", "ⳬ", "ⳮ", "ⳳ", "ꚁ", "ꚃ", "ꚅ", "ꚇ", "ꚉ", "ꚋ", "ꚍ", "ꚏ", "ꚑ", "ꚓ", "ꚕ",
     "ꚗ", "ꚙ", "ꚛ", "ꞁ", "ꞃ", "ꞅ", "ꞇ", "ꞌ", "ꞑ", "ꞓ", "ꞗ", "ꞙ", "ꞛ", "ꞝ", "ꞟ", "ꞡ", "ꞣ", "ꞥ",
     "ꞧ", "ꞩ", "ʞ", "ʇ", "ʝ", "ꞵ", "ꞷ", "ꞹ", "ꞻ", "ꞽ", "ꞿ", "ꟁ", "ꟃ", "ꞔ", "ʂ", "ᶎ", "ꟈ", "ꟊ",
     "ꟑ", "ꟗ", "ꟙ", "ꟶ"
    >>
LowerOf == [c \in Range(LowerFrom) |-> LowerTo[IndexOf(LowerFrom, c)]]
\* the characters str.lower() changes into one this module cannot hold
LowerOutside ==
    {
     "Ɓ", "Ɔ", "Ɖ", "Ɗ", "Ə", "Ɛ", "Ɠ", "Ɣ", "Ɩ", "Ɨ", "Ɯ", "Ɲ", "Ɵ", "Ͻ", "Ͼ", "Ͽ", "Ⴀ", "Ⴁ",
     "Ⴂ", "Ⴃ", "Ⴄ", "Ⴅ", "Ⴆ", "Ⴇ", "Ⴈ", "Ⴉ", "Ⴊ", "Ⴋ", "Ⴌ", "Ⴍ", "Ⴎ", "Ⴏ", "Ⴐ", "Ⴑ", "Ⴒ", "Ⴓ",
     "Ⴔ", "Ⴕ", "Ⴖ", "Ⴗ", "Ⴘ", "Ⴙ", "Ⴚ", "Ⴛ", "Ⴜ", "Ⴝ", "Ⴞ", "Ⴟ", "Ⴠ", "Ⴡ", "Ⴢ", "Ⴣ", "Ⴤ", "Ⴥ",
     "Ⴧ", "Ⴭ", "Ꭰ", "Ꭱ", "Ꭲ", "Ꭳ", "Ꭴ", "Ꭵ", "Ꭶ", "Ꭷ", "Ꭸ", "Ꭹ", "Ꭺ", "Ꭻ", "Ꭼ", "Ꭽ", "Ꭾ", "Ꭿ",
     "Ὰ", "Ά", "Ὲ", "Έ", "Ὴ", "Ή", "Ὶ", "Ί", "Ὺ", "Ύ", "Ὸ", "Ό", "Ὼ", "Ώ", "Ɥ", "Ɦ", "Ɜ", "Ɡ",
     "Ɬ", "Ɪ", "Ꭓ"
    }
LowerChar(c) ==
    IF c \in DOMAIN LowerOf THEN LowerOf[c]
    ELSE IF c \in LowerOutside THEN Unwritable(c)
    ELSE c

\* the cased characters that are not case-ignorable, and the case-ignorable
\* ones: what str.lower() looks at around a capital sigma
Cased ==
    {
     "A", "B", "C", "D", "E", "F", "G", "H", "I", "J", "K", "L", "M", "N", "O", "P", "Q", "R",
     "S", "T", "U", "V", "W", "X", "Y", "Z", "a", "b", "c", "d", "e", "f", "g", "h", "i", "j",
     "k", "l", "m", "n", "o", "p", "q", "r", "s", "t", "u", "v", "w", "x", "y", "z", "ª", "µ",
     "º", "À", "Á", "Â", "Ã", "Ä", "Å", "Æ", "Ç", "È", "É", "Ê", "Ë", "Ì", "Í", "Î", "Ï", "Ð",
     "Ñ", "Ò", "Ó", "Ô", "Õ", "Ö", "Ø", "Ù", "Ú", "Û", "Ü", "Ý", "Þ", "ß", "à", "á", "â", "ã",
     "ä", "å", "æ", "ç", "è", "é", "ê", "ë", "ì", "í", "î", "ï", "ð", "ñ", "ò", "ó", "ô", "õ",
     "ö", "ø", "ù", "ú", "û", "ü", "ý", "þ", "ÿ", "ƀ", "Ɓ", "Ƃ", "ƃ", "Ƅ", "ƅ", "Ɔ", "Ƈ", "ƈ",
     "Ɖ", "Ɗ", "Ƌ", "ƌ", "ƍ", "Ǝ", "Ə", "Ɛ", "Ƒ", "ƒ", "Ɠ", "Ɣ", "ƕ", "Ɩ", "Ɨ", "Ƙ", "ƙ", "ƚ",
     "ƛ", "Ɯ", "Ɲ", "ƞ", "Ɵ", "Ơ", "ơ", "Ƣ", "ƣ", "Ƥ", "ƥ", "Ʀ", "Ƨ", "ƨ", "Ʃ", "ƪ", "ƫ", "Ƭ",
     "ƭ", "Ʈ", "Ư", "ư", "Ʊ", "Ʋ", "Ƴ", "ƴ", "Ƶ", "ƶ", "Ʒ", "Ƹ", "ƹ", "ƺ", "Ƽ", "ƽ", "ƾ", "ƿ",
     "Ǆ", "ǅ", "ǆ", "Ǉ", "ǈ", "ǉ", "Ǌ", "ǋ", "ǌ", "Ǎ", "ǎ", "Ǐ", "ǐ", "Ǒ", "ǒ", "Ǔ", "ǔ", "Ǖ",
     "ǖ", "Ǘ", "ǘ", "Ǚ", "ǚ", "Ǜ", "ǜ", "ǝ", "Ǟ", "ǟ", "Ǡ", "ǡ", "Ǣ", "ǣ", "Ǥ", "ǥ", "Ǧ", "ǧ",
     "Ǩ", "ǩ", "Ǫ", "ǫ", "Ǭ", "ǭ", "Ǯ", "ǯ", "ǰ", "Ǳ", "ǲ", "ǳ", "Ǵ", "ǵ", "Ƕ", "Ƿ", "Ǹ", "ǹ",
     "Ǻ", "ǻ", "Ǽ", "ǽ", "Ǿ", "ǿ", "ʀ", "ʁ", "ʂ", "ʃ", "ʄ", "ʅ", "ʆ", "ʇ", "ʈ", "ʉ", "ʊ", "ʋ",
     "ʌ", "ʍ", "ʎ", "ʏ", "ʐ", "ʑ", "ʒ", "ʓ", "ʕ", "ʖ", "ʗ", "ʘ", "ʙ", "ʚ", "ʛ", "ʜ", "ʝ", "ʞ",
     "ʟ", "ʠ", "ʡ", "ʢ", "ʣ", "ʤ", "ʥ", "ʦ", "ʧ", "ʨ", "ʩ", "ʪ", "ʫ", "ʬ", "ʭ", "ʮ", "ʯ", "Ά",
     "Έ", "Ή", "Ί", "Ό", "Ύ", "Ώ", "ΐ", "Α", "Β", "Γ", "Δ", "Ε", "Ζ", "Η", "Θ", "Ι", "Κ", "Λ",
     "Μ", "Ν", "Ξ", "Ο", "Π", "Ρ", "Σ", "Τ", "Υ", "Φ", "Χ", "Ψ", "Ω", "Ϊ", "Ϋ", "ά", "έ", "ή",
     "ί", "ΰ", "α", "β", "γ", "δ", "ε", "ζ", "η", "θ", "ι", "κ", "λ", "μ", "ν", "ξ", "ο", "π",
     "ρ", "ς", "σ", "τ", "υ", "φ", "χ", "ψ", "ω", "ϊ", "ϋ", "ό", "ύ", "ώ", "Ϗ", "ϐ", "ϑ", "ϒ",
     "ϓ", "ϔ", "ϕ", "ϖ", "ϗ", "Ϙ", "ϙ", "Ϛ", "ϛ", "Ϝ", "ϝ", "Ϟ", "ϟ", "Ϡ", "ϡ", "Ϣ", "ϣ", "Ϥ",
     "ϥ", "Ϧ", "ϧ", "Ϩ", "ϩ", "Ϫ", "ϫ", "Ϭ", "ϭ", "Ϯ", "ϯ", "ϰ", "ϱ", "ϲ", "ϳ", "ϴ", "ϵ", "Ϸ",
     "ϸ", "Ϲ", "Ϻ", "ϻ", "ϼ", "Ͻ", "Ͼ", "Ͽ", "Ҁ", "ҁ", "Ҋ", "ҋ", "Ҍ", "ҍ", "Ҏ", "ҏ", "Ґ", "ґ",
     "Ғ", "ғ", "Ҕ", "ҕ", "Җ", "җ", "Ҙ", "ҙ", "Қ", "қ", "Ҝ", "ҝ", "Ҟ", "ҟ", "Ҡ", "ҡ", "Ң", "ң",
     "Ҥ", "ҥ", "Ҧ", "ҧ", "Ҩ", "ҩ", "Ҫ", "ҫ", "Ҭ", "ҭ", "Ү", "ү", "Ұ", "ұ", "Ҳ", "ҳ", "Ҵ", "ҵ",
     "Ҷ", "ҷ", "Ҹ", "ҹ", "Һ", "һ", "Ҽ", "ҽ", "Ҿ", "ҿ", "Ӏ", "Ӂ", "ӂ", "Ӄ", "ӄ", "Ӆ", "ӆ", "Ӈ",
     "ӈ", "Ӊ", "ӊ", "Ӌ", "ӌ", "Ӎ", "ӎ", "ӏ", "Ӑ", "ӑ", "Ӓ", "ӓ", "Ӕ", "ӕ", "Ӗ", "ӗ", "Ә", "ә",
     "Ӛ", "ӛ", "Ӝ", "ӝ", "Ӟ", "ӟ", "Ӡ", "ӡ", "Ӣ", "ӣ", "Ӥ", "ӥ", "Ӧ", "ӧ", "Ө", "ө", "Ӫ", "ӫ",
     "Ӭ", "ӭ", "Ӯ", "ӯ", "Ӱ", "ӱ", "Ӳ", "ӳ", "Ӵ", "ӵ", "Ӷ", "ӷ", "Ӹ", "ӹ", "Ӻ", "ӻ", "Ӽ", "ӽ",
     "Ӿ", "ӿ", "ր", "ց", "ւ", "փ", "ք", "օ", "ֆ", "և", "ֈ", "Ⴀ", "Ⴁ", "Ⴂ", "Ⴃ", "Ⴄ", "Ⴅ", "Ⴆ",
     "Ⴇ", "Ⴈ", "Ⴉ", "Ⴊ", "Ⴋ", "Ⴌ", "Ⴍ", "Ⴎ", "Ⴏ", "Ⴐ", "Ⴑ", "Ⴒ", "Ⴓ", "Ⴔ", "Ⴕ", "Ⴖ", "Ⴗ", "Ⴘ",
     "Ⴙ", "Ⴚ", "Ⴛ", "Ⴜ", "Ⴝ", "Ⴞ", "Ⴟ", "Ⴠ", "Ⴡ", "Ⴢ", "Ⴣ", "Ⴤ", "Ⴥ", "Ⴧ", "Ⴭ", "ა", "ბ", "გ",
     "დ", "ე", "ვ", "ზ", "თ", "ი", "კ", "ლ", "მ", "ნ", "ო", "პ", "ჟ", "რ", "ს", "ტ", "უ", "ფ",
     "ქ", "ღ", "ყ", "შ", "ჩ", "ც", "ძ", "წ", "ჭ", "ხ", "ჯ", "ჰ", "ჱ", "ჲ", "ჳ", "ჴ", "ჵ", "ჶ",
     "ჷ", "ჸ", "ჹ", "ჺ", "ჽ", "ჾ", "ჿ", "Ꭰ", "Ꭱ", "Ꭲ", "Ꭳ", "Ꭴ", "Ꭵ", "Ꭶ", "Ꭷ", "Ꭸ", "Ꭹ", "Ꭺ",
     "Ꭻ", "Ꭼ", "Ꭽ", "Ꭾ", "Ꭿ", "Ꮀ", "Ꮁ", "Ꮂ", "Ꮃ", "Ꮄ", "Ꮅ", "Ꮆ", "Ꮇ", "Ꮈ", "Ꮉ", "Ꮊ", "Ꮋ", "Ꮌ",
     "Ꮍ", "Ꮎ", "Ꮏ", "Ꮐ", "Ꮑ", "Ꮒ", "Ꮓ", "Ꮔ", "Ꮕ", "Ꮖ", "Ꮗ", "Ꮘ", "Ꮙ", "Ꮚ", "Ꮛ", "Ꮜ", "Ꮝ", "Ꮞ",
     "Ꮟ", "Ꮠ", "Ꮡ", "Ꮢ", "Ꮣ", "Ꮤ", "Ꮥ", "Ꮦ", "Ꮧ", "Ꮨ", "Ꮩ", "Ꮪ", "Ꮫ", "Ꮬ", "Ꮭ", "Ꮮ", "Ꮯ", "Ꮰ",
     "Ꮱ", "Ꮲ", "Ꮳ", "Ꮴ", "Ꮵ", "Ꮶ", "Ꮷ", "Ꮸ", "Ꮹ", "Ꮺ", "Ꮻ", "Ꮼ", "Ꮽ", "Ꮾ", "Ꮿ", "Ᏸ", "Ᏹ", "Ᏺ",
     "Ᏻ", "Ᏼ", "Ᏽ", "ᏸ", "ᏹ", "ᏺ", "ᏻ", "ᏼ", "ᏽ", "ᲀ", "ᲁ", "ᲂ", "ᲃ", "ᲄ", "ᲅ", "ᲆ", "ᲇ", "ᲈ",
     "Ა", "Ბ", "Გ", "Დ", "Ე", "Ვ", "Ზ", "Თ", "Ი", "Კ", "Ლ", "Მ", "Ნ", "Ო", "Პ", "Ჟ", "Რ", "Ს",
     "Ტ", "Უ", "Ფ", "Ქ", "Ღ", "Ყ", "Შ", "Ჩ", "Ც", "Ძ", "Წ", "Ჭ", "Ხ", "Ჯ", "Ჰ", "Ჱ", "Ჲ", "Ჳ",
     "Ჴ", "Ჵ", "Ჶ", "Ჷ", "Ჸ", "Ჹ", "Ჺ", "Ჽ", "Ჾ", "Ჿ", "ᶀ", "ᶁ", "ᶂ", "ᶃ", "ᶄ", "ᶅ", "ᶆ", "ᶇ",
     "ᶈ", "ᶉ", "ᶊ", "ᶋ", "ᶌ", "ᶍ", "ᶎ", "ᶏ", "ᶐ", "ᶑ", "ᶒ", "ᶓ", "ᶔ", "ᶕ", "ᶖ", "ᶗ", "ᶘ", "ᶙ",
     "ᶚ", "Ẁ", "ẁ", "Ẃ", "ẃ", "Ẅ", "ẅ", "Ẇ", "ẇ", "Ẉ", "ẉ", "Ẋ", "ẋ", "Ẍ", "ẍ", "Ẏ", "ẏ", "Ẑ",
     "ẑ", "Ẓ", "ẓ", "Ẕ", "ẕ", "ẖ", "ẗ", "ẘ", "ẙ", "ẚ", "ẛ", "ẜ", "ẝ", "ẞ", "ẟ", "Ạ", "ạ", "Ả",
     "ả", "Ấ", "ấ", "Ầ", "ầ", "Ẩ", "ẩ", "Ẫ", "ẫ", "Ậ", "ậ", "Ắ", "ắ", "Ằ", "ằ", "Ẳ", "ẳ", "Ẵ",
     "ẵ", "Ặ", "ặ", "Ẹ", "ẹ", "Ẻ", "ẻ", "Ẽ", "ẽ", "Ế", "ế", "Ề", "ề", "Ể", "ể", "Ễ", "ễ", "Ệ",
     "ệ", "Ỉ", "ỉ", "Ị", "ị", "Ọ", "ọ", "Ỏ", "ỏ", "Ố", "ố", "Ồ", "ồ", "Ổ", "ổ", "Ỗ", "ỗ", "Ộ",
     "ộ", "Ớ", "ớ", "Ờ", "ờ", "Ở", "ở", "Ỡ", "ỡ", "Ợ", "ợ", "Ụ", "ụ", "Ủ", "ủ", "Ứ", "ứ", "Ừ",
     "ừ", "Ử", "ử", "Ữ", "ữ", "Ự", "ự", "Ỳ", "ỳ", "Ỵ", "ỵ", "Ỷ", "ỷ", "Ỹ", "ỹ", "Ỻ", "ỻ", "Ỽ",
     "ỽ", "Ỿ", "ỿ", "ᾀ", "ᾁ", "ᾂ", "ᾃ", "ᾄ", "ᾅ", "ᾆ", "ᾇ", "ᾈ", "ᾉ", "ᾊ", "ᾋ", "ᾌ", "ᾍ", "ᾎ",
     "ᾏ", "ᾐ", "ᾑ", "ᾒ", "ᾓ", "ᾔ", "ᾕ", "ᾖ", "ᾗ", "ᾘ", "ᾙ", "ᾚ", "ᾛ", "ᾜ", "ᾝ", "ᾞ", "ᾟ", "ᾠ",
     "ᾡ", "ᾢ", "ᾣ", "ᾤ", "ᾥ", "ᾦ", "ᾧ", "ᾨ", "ᾩ", "ᾪ", "ᾫ", "ᾬ", "ᾭ", "ᾮ", "ᾯ", "ᾰ", "ᾱ", "ᾲ",
     "ᾳ", "ᾴ", "ᾶ", "ᾷ", "Ᾰ", "Ᾱ", "Ὰ", "Ά", "ᾼ", "ι", "ῂ", "ῃ", "ῄ", "ῆ", "ῇ", "Ὲ", "Έ", "Ὴ",
     "Ή", "ῌ", "ῐ", "ῑ", "ῒ", "ΐ", "ῖ", "ῗ", "Ῐ", "Ῑ", "Ὶ", "Ί", "ῠ", "ῡ", "ῢ", "ΰ", "ῤ", "ῥ",
     "ῦ", "ῧ", "Ῠ", "Ῡ", "Ὺ", "Ύ", "Ῥ", "ῲ", "ῳ", "ῴ", "ῶ", "ῷ", "Ὸ", "Ό", "Ὼ", "Ώ", "ῼ", "Ↄ",
     "ↄ", "Ⓐ", "Ⓑ", "Ⓒ", "Ⓓ", "Ⓔ", "Ⓕ", "Ⓖ", "Ⓗ", "Ⓘ", "Ⓙ", "Ⓚ", "Ⓛ", "Ⓜ", "Ⓝ", "Ⓞ", "Ⓟ", "Ⓠ",
     "Ⓡ", "Ⓢ", "Ⓣ", "Ⓤ", "Ⓥ", "Ⓦ", "Ⓧ", "Ⓨ", "Ⓩ", "ⓐ", "ⓑ", "ⓒ", "ⓓ", "ⓔ", "ⓕ", "ⓖ", "ⓗ", "ⓘ",
     "ⓙ", "ⓚ", "ⓛ", "ⓜ", "ⓝ", "ⓞ", "ⓟ", "ⓠ", "ⓡ", "ⓢ", "ⓣ", "ⓤ", "ⓥ", "ⓦ", "ⓧ", "ⓨ", "ⓩ", "Ⲁ",
     "ⲁ", "Ⲃ", "ⲃ", "Ⲅ", "ⲅ", "Ⲇ", "ⲇ", "Ⲉ", "ⲉ", "Ⲋ", "ⲋ", "Ⲍ", "ⲍ", "Ⲏ", "ⲏ", "Ⲑ", "ⲑ", "Ⲓ",
     "ⲓ", "Ⲕ", "ⲕ", "Ⲗ", "ⲗ", "Ⲙ", "ⲙ", "Ⲛ", "ⲛ", "Ⲝ", "ⲝ", "Ⲟ", "ⲟ", "Ⲡ", "ⲡ", "Ⲣ", "ⲣ", "Ⲥ",
     "ⲥ", "Ⲧ", "ⲧ", "Ⲩ", "ⲩ", "Ⲫ", "ⲫ", "Ⲭ", "ⲭ", "Ⲯ", "ⲯ", "Ⲱ", "ⲱ", "Ⲳ", "ⲳ", "Ⲵ", "ⲵ", "Ⲷ",
     "ⲷ", "Ⲹ", "ⲹ", "Ⲻ", "ⲻ", "Ⲽ", "ⲽ", "Ⲿ", "ⲿ", "Ⳁ", "ⳁ", "Ⳃ", "ⳃ", "Ⳅ", "ⳅ", "Ⳇ", "ⳇ", "Ⳉ",
     "ⳉ", "Ⳋ", "ⳋ", "Ⳍ", "ⳍ", "Ⳏ", "ⳏ", "Ⳑ", "ⳑ", "Ⳓ", "ⳓ", "Ⳕ", "ⳕ", "Ⳗ", "ⳗ", "Ⳙ", "ⳙ", "Ⳛ",
     "ⳛ", "Ⳝ", "ⳝ", "Ⳟ", "ⳟ", "Ⳡ", "ⳡ", "Ⳣ", "ⳣ", "ⳤ", "Ⳬ", "ⳬ", "Ⳮ", "ⳮ", "Ⳳ", "ⳳ", "Ꚁ", "ꚁ",
     "Ꚃ", "ꚃ", "Ꚅ", "ꚅ", "Ꚇ", "ꚇ", "Ꚉ", "ꚉ", "Ꚋ", "ꚋ", "Ꚍ", "ꚍ", "Ꚏ", "ꚏ", "Ꚑ", "ꚑ", "Ꚓ", "ꚓ",
     "Ꚕ", "ꚕ", "Ꚗ", "ꚗ", "Ꚙ", "ꚙ", "Ꚛ", "ꚛ", "Ꞁ", "ꞁ", "Ꞃ", "ꞃ", "Ꞅ", "ꞅ", "Ꞇ", "ꞇ", "Ꞌ", "ꞌ",
     "Ɥ", "ꞎ", "Ꞑ", "ꞑ", "Ꞓ", "ꞓ", "ꞔ", "ꞕ", "Ꞗ", "ꞗ", "Ꞙ", "ꞙ", "Ꞛ", "ꞛ", "Ꞝ", "ꞝ", "Ꞟ", "ꞟ",
     "Ꞡ", "ꞡ", "Ꞣ", "ꞣ", "Ꞥ", "ꞥ", "Ꞧ", "ꞧ", "Ꞩ", "ꞩ", "Ɦ", "Ɜ", "Ɡ", "Ɬ", "Ɪ", "ꞯ", "Ʞ", "Ʇ",
     "Ʝ", "Ꭓ", "Ꞵ", "ꞵ", "Ꞷ", "ꞷ", "Ꞹ", "ꞹ", "Ꞻ", "ꞻ", "Ꞽ", "ꞽ", "Ꞿ", "ꞿ", "Ꟁ", "ꟁ", "Ꟃ", "ꟃ",
     "Ꞔ", "Ʂ", "Ᶎ", "Ꟈ", "ꟈ", "Ꟊ", "ꟊ", "Ꟑ", "ꟑ", "ꟓ", "ꟕ", "Ꟗ", "ꟗ", "Ꟙ", "ꟙ", "Ꟶ", "ꟶ", "ꟺ",
     "ꮀ", "ꮁ", "ꮂ", "ꮃ", "ꮄ", "ꮅ", "ꮆ", "ꮇ", "ꮈ", "ꮉ", "ꮊ", "ꮋ", "ꮌ", "ꮍ", "ꮎ", "ꮏ", "ꮐ", "ꮑ",
     "ꮒ", "ꮓ", "ꮔ", "ꮕ", "ꮖ", "ꮗ", "ꮘ", "ꮙ", "ꮚ", "ꮛ", "ꮜ", "ꮝ", "ꮞ", "ꮟ", "ꮠ", "ꮡ", "ꮢ", "ꮣ",
     "ꮤ", "ꮥ", "ꮦ", "ꮧ", "ꮨ", "ꮩ", "ꮪ", "ꮫ", "ꮬ", "ꮭ", "ꮮ", "ꮯ", "ꮰ", "ꮱ", "ꮲ", "ꮳ", "ꮴ", "ꮵ",
     "ꮶ", "ꮷ", "ꮸ", "ꮹ", "ꮺ", "ꮻ", "ꮼ", "ꮽ", "ꮾ", "ꮿ"
    }
CaseIgnorable ==
    {
     "'", ".", ":", "^", "¨", "­", "¯", "´", "·", "¸", "ʰ", "ʱ", "ʲ", "ʳ", "ʴ", "ʵ", "ʶ", "ʷ",
     "ʸ", "ʹ", "ʺ", "ʻ", "ʼ", "ʽ", "ʾ", "ʿ", "ˀ", "ˁ", "˂", "˃", "˄", "˅", "ˆ", "ˇ", "ˈ", "ˉ",
     "ˊ", "ˋ", "ˌ", "ˍ", "ˎ", "ˏ", "ː", "ˑ", "˒", "˓", "˔", "˕", "˖", "˗", "˘", "˙", "˚", "˛",
     "˜", "˝", "˞", "˟", "ˠ", "ˡ", "ˢ", "ˣ", "ˤ", "˥", "˦", "˧", "˨", "˩", "˪", "˫", "ˬ", "˭",
     "ˮ", "˯", "˰", "˱", "˲", "˳", "˴", "˵", "˶", "˷", "˸", "˹", "˺", "˻", "˼", "˽", "˾", "˿",
     "΄", "΅", "·", "҃", "҄", "҅", "҆", "҇", "҈", "҉", "֑", "֒", "֓", "֔", "֕", "֖", "֗", "֘",
     "֙", "֚", "֛", "֜", "֝", "֞", "֟", "֠", "֡", "֢", "֣", "֤", "֥", "֦", "֧", "֨", "֩", "֪",
     "֫", "֬", "֭", "֮", "֯", "ְ", "ֱ", "ֲ", "ֳ", "ִ", "ֵ", "ֶ", "ַ", "ָ", "ֹ", "ֺ", "ֻ", "ּ",
     "ֽ", "ֿ", "ׁ", "ׂ", "ׄ", "ׅ", "ׇ", "״", "ۖ", "ۗ", "ۘ", "ۙ", "ۚ", "ۛ", "ۜ", "۝", "۟", "۠",
     "ۡ", "ۢ", "ۣ", "ۤ", "ۥ", "ۦ", "ۧ", "ۨ", "۪", "۫", "۬", "ۭ", "ަ", "ާ", "ި", "ީ", "ު", "ޫ",
     "ެ", "ޭ", "ޮ", "ޯ", "ް", "߫", "߬", "߭", "߮", "߯", "߰", "߱", "߲", "߳", "ߴ", "ߵ", "ߺ", "߽",
     "࢈", "࢐", "࢑", "࢘", "࢙", "࢚", "࢛", "࢜", "࢝", "࢞", "࢟", "ࣉ", "࣊", "࣋", "࣌", "࣍", "࣎", "࣏",
     "࣐", "࣑", "࣒", "࣓", "ࣔ", "ࣕ", "ࣖ", "ࣗ", "ࣘ", "ࣙ", "ࣚ", "ࣛ", "ࣜ", "ࣝ", "ࣞ", "ࣟ", "࣠", "࣡",
     "࣢", "ࣣ", "ࣤ", "ࣥ", "ࣦ", "ࣧ", "ࣨ", "ࣩ", "࣪", "࣫", "࣬", "࣭", "࣮", "࣯", "ࣰ", "ࣱ", "ࣲ", "ࣳ",
     "ࣴ", "ࣵ", "ࣶ", "ࣷ", "ࣸ", "ࣹ", "ࣺ", "ࣻ", "ࣼ", "ࣽ", "ࣾ", "ࣿ", "ঁ", "়", "ু", "ূ", "ৃ", "ৄ",
     "্", "ৢ", "ৣ", "৾", "ઁ", "ં", "઼", "ુ", "ૂ", "ૃ", "ૄ", "ૅ", "ે", "ૈ", "્", "ૢ", "ૣ", "ૺ",
     "ૻ", "ૼ", "૽", "૾", "૿", "ஂ", "ீ", "்", "ಁ", "಼", "ಿ", "ೆ", "ೌ", "್", "ೢ", "ೣ", "ඁ", "්",
     "ි", "ී", "ු", "ූ", "ັ", "ິ", "ີ", "ຶ", "ື", "ຸ", "ູ", "຺", "ົ", "ຼ", "ໆ", "່", "້", "໊",
     "໋", "໌", "ໍ", "ྀ", "ཱྀ", "ྂ", "ྃ", "྄", "྆", "྇", "ྍ", "ྎ", "ྏ", "ྐ", "ྑ", "ྒ", "ྒྷ", "ྔ",
     "ྕ", "ྖ", "ྗ", "ྙ", "ྚ", "ྛ", "ྜ", "ྜྷ", "ྞ", "ྟ", "ྠ", "ྡ", "ྡྷ", "ྣ", "ྤ", "ྥ", "ྦ", "ྦྷ",
     "ྨ", "ྩ", "ྪ", "ྫ", "ྫྷ", "ྭ", "ྮ", "ྯ", "ྰ", "ྱ", "ྲ", "ླ", "ྴ", "ྵ", "ྶ", "ྷ", "ྸ", "ྐྵ",
     "ྺ", "ྻ", "ྼ", "࿆", "ႂ", "ႅ", "ႆ", "ႍ", "ႝ", "ჼ", "឴", "឵", "ិ", "ី", "ឹ", "ឺ", "ុ", "ូ",
     "ួ", "ំ", "៉", "៊", "់", "៌", "៍", "៎", "៏", "័", "៑", "្", "៓", "ៗ", "៝", "ᢅ", "ᢆ", "ᢩ",
     "ᪧ", "᪰", "᪱", "᪲", "᪳", "᪴", "᪵", "᪶", "᪷", "᪸", "᪹", "᪺", "᪻", "᪼", "᪽", "᪾", "ᪿ", "ᫀ",
     "᫁", "᫂", "᫃", "᫄", "᫅", "᫆", "᫇", "᫈", "᫉", "᫊", "᫋", "ᫌ", "ᫍ", "ᫎ", "ᮀ", "ᮁ", "ᮢ", "ᮣ",
     "ᮤ", "ᮥ", "ᮨ", "ᮩ", "᮫", "ᮬ", "ᮭ", "᯦", "ᯨ", "ᯩ", "ᯭ", "ᯯ", "ᯰ", "ᯱ", "᳐", "᳑", "᳒", "᳔",
     "᳕", "᳖", "᳗", "᳘", "᳙", "᳚", "᳛", "᳜", "᳝", "᳞", "᳟", "᳠", "᳢", "᳣", "᳤", "᳥", "᳦", "᳧",
     "᳨", "᳭", "᳴", "᳸", "᳹", "ᶛ", "ᶜ", "ᶝ", "ᶞ", "ᶟ", "ᶠ", "ᶡ", "ᶢ", "ᶣ", "ᶤ", "ᶥ", "ᶦ", "ᶧ",
     "ᶨ", "ᶩ", "ᶪ", "ᶫ", "ᶬ", "ᶭ", "ᶮ", "ᶯ", "ᶰ", "ᶱ", "ᶲ", "ᶳ", "ᶴ", "ᶵ", "ᶶ", "ᶷ", "ᶸ", "ᶹ",
     "ᶺ", "ᶻ", "ᶼ", "ᶽ", "ᶾ", "ᶿ", "᷀", "᷁", "᷂", "᷃", "᷄", "᷅", "᷆", "᷇", "᷈", "᷉", "᷊", "᷋",
     "᷌", "᷍", "᷎", "᷏", "᷐", "᷑", "᷒", "ᷓ", "ᷔ", "ᷕ", "ᷖ", "ᷗ", "ᷘ", "ᷙ", "ᷚ", "ᷛ", "ᷜ", "ᷝ",
     "ᷞ", "ᷟ", "ᷠ", "ᷡ", "ᷢ", "ᷣ", "ᷤ", "ᷥ", "ᷦ", "ᷧ", "ᷨ", "ᷩ", "ᷪ", "ᷫ", "ᷬ", "ᷭ", "ᷮ", "ᷯ",
     "ᷰ", "ᷱ", "ᷲ", "ᷳ", "ᷴ", "᷵", "᷶", "᷷", "᷸", "᷹", "᷺", "᷻", "᷼", "᷽", "᷾", "᷿", "᾽", "᾿",
     "῀", "῁", "῍", "῎", "῏", "῝", "῞", "῟", "῭", "΅", "`", "´", "῾", "ₐ", "ₑ", "ₒ", "ₓ", "ₔ",
     "ₕ", "ₖ", "ₗ", "ₘ", "ₙ", "ₚ", "ₛ", "ₜ", "⃐", "⃑", "⃒", "⃓", "⃔", "⃕", "⃖", "⃗", "⃘", "⃙",
     "⃚", "⃛", "⃜", "⃝", "⃞", "⃟", "⃠", "⃡", "⃢", "⃣", "⃤", "⃥", "⃦", "⃧", "⃨", "⃩", "⃪", "⃫",
     "⃬", "⃭", "⃮", "⃯", "⃰", "⳯", "⳰", "⳱", "ⷠ", "ⷡ", "ⷢ", "ⷣ", "ⷤ", "ⷥ", "ⷦ", "ⷧ", "ⷨ", "ⷩ",
     "ⷪ", "ⷫ", "ⷬ", "ⷭ", "ⷮ", "ⷯ", "ⷰ", "ⷱ", "ⷲ", "ⷳ", "ⷴ", "ⷵ", "ⷶ", "ⷷ", "ⷸ", "ⷹ", "ⷺ", "ⷻ",
     "ⷼ", "ⷽ", "ⷾ", "ⷿ", "゙", "゚", "゛", "゜", "ゝ", "ゞ", "ー", "ヽ", "ヾ", "ꓸ", "ꓹ", "ꓺ", "ꓻ", "ꓼ",
     "ꓽ", "ꚜ", "ꚝ", "ꚞ", "ꚟ", "꛰", "꛱", "ꞈ", "꞉", "꞊", "ꟲ", "ꟳ", "ꟴ", "ꟸ", "ꟹ", "꣄", "ꣅ", "꣠",
     "꣡", "꣢", "꣣", "꣤", "꣥", "꣦", "꣧", "꣨", "꣩", "꣪", "꣫", "꣬", "꣭", "꣮", "꣯", "꣰", "꣱", "ꣿ",
     "ꦀ", "ꦁ", "ꦂ", "꦳", "ꦶ", "ꦷ", "ꦸ", "ꦹ", "ꦼ", "ꦽ", "ꧏ", "ꧥ", "ꧦ", "ꪰ", "ꪲ", "ꪳ", "ꪴ", "ꪷ",
     "ꪸ", "ꪾ", "꪿", "꫁", "ꫝ", "ꫬ", "ꫭ", "ꫳ", "ꫴ", "꫶", "ꯥ", "ꯨ", "꯭", "﮲", "﮳", "﮴", "﮵", "﮶",
     "﮷", "﮸", "﮹", "﮺", "﮻", "﮼", "﮽", "﮾", "﮿", "﯀", "﯁", "﯂", "﻿", "ﾞ", "ﾟ", "￣", "￹", "￺",
     "￻"
    }

\* str.lower()'s Final_Sigma context at position i: the nearest character
\* before it that is not case-ignorable is cased, and the nearest one after
\* it that is not case-ignorable, if any, is not cased
FinalSigma(s, i) ==
    LET before == {j \in 1..(i - 1) : s[j] \notin CaseIgnorable}
        after == {j \in (i + 1)..Len(s) : s[j] \notin CaseIgnorable}
    IN  /\ before # {} /\ s[SetMax(before)] \in Cased
        /\ after = {} \/ s[SetMin(after)] \notin Cased

\* str.lower(): character by character, but for a capital sigma in the
\* Final_Sigma context, which becomes the final small sigma
lower(s) ==
    [i \in 1..Len(s) |-> IF s[i] = "Σ" /\ FinalSigma(s, i) THEN "ς" ELSE LowerChar(s[i])]

\* str.upper(): the characters it changes into characters this module can
\* hold, and at the same index the one, two or three characters it changes
\* them into
UpperFrom ==
    <<
     "a", "b", "c", "d", "e", "f", "g", "h", "i", "j", "k", "l", "m", "n", "o", "p", "q", "r",
     "s", "t", "u", "v", "w", "x", "y", "z", "µ", "ß", "à", "á", "â", "ã", "ä", "å", "æ", "ç",
     "è", "é", "ê", "ë", "ì", "í", "î", "ï", "ð", "ñ", "ò", "ó", "ô", "õ", "ö", "ø", "ù", "ú",
     "û", "ü", "ý", "þ", "ƃ", "ƅ", "ƈ", "ƌ", "ƒ", "ƕ", "ƙ", "ơ", "ƣ", "ƥ", "ƨ", "ƭ", "ư", "ƴ",
     "ƶ", "ƹ", "ƽ", "ƿ", "ǅ", "ǆ", "ǈ", "ǉ", "ǋ", "ǌ", "ǎ", "ǐ", "ǒ", "ǔ", "ǖ", "ǘ", "ǚ", "ǜ",
     "ǝ", "ǟ", "ǡ", "ǣ", "ǥ", "ǧ", "ǩ", "ǫ", "ǭ", "ǯ", "ǲ", "ǳ", "ǵ", "ǹ", "ǻ", "ǽ", "ǿ", "ʀ",
     "ʂ", "ʃ", "ʇ", "ʈ", "ʊ", "ʋ", "ʒ", "ʝ", "ʞ", "ά", "έ", "ή", "ί", "α", "β", "γ", "δ", "ε",
     "ζ", "η", "θ", "ι", "κ", "λ", "μ", "ν", "ξ", "ο", "π", "ρ", "ς", "σ", "τ", "υ", "φ", "χ",
     "ψ", "ω", "ϊ", "ϋ", "ό", "ύ", "ώ", "ϐ", "ϑ", "ϕ", "ϖ", "ϗ", "ϙ", "ϛ", "ϝ", "ϟ", "ϡ", "ϣ",
     "ϥ", "ϧ", "ϩ", "ϫ", "ϭ", "ϯ", "ϰ", "ϱ", "ϲ", "ϵ", "ϸ", "ϻ", "ҁ", "ҋ", "ҍ", "ҏ", "ґ", "ғ",
     "ҕ", "җ", "ҙ", "қ", "ҝ", "ҟ", "ҡ", "ң", "ҥ", "ҧ", "ҩ", "ҫ", "ҭ", "ү", "ұ", "ҳ", "ҵ", "ҷ",
     "ҹ", "һ", "ҽ", "ҿ", "ӂ", "ӄ", "ӆ", "ӈ", "ӊ", "ӌ", "ӎ", "ӏ", "ӑ", "ӓ", "ӕ", "ӗ", "ә", "ӛ",
     "ӝ", "ӟ", "ӡ", "ӣ", "ӥ", "ӧ", "ө", "ӫ", "ӭ", "ӯ", "ӱ", "ӳ", "ӵ", "ӷ", "ӹ", "ӻ", "ӽ", "ӿ",
     "ა", "ბ", "გ", "დ", "ე", "ვ", "ზ", "თ", "ი", "კ", "ლ", "მ", "ნ", "ო", "პ", "ჟ", "რ", "ს",
     "ტ", "უ", "ფ", "ქ", "ღ", "ყ", "შ", "ჩ", "ც", "ძ", "წ", "ჭ", "ხ", "ჯ", "ჰ", "ჱ", "ჲ", "ჳ",
     "ჴ", "ჵ", "ჶ", "ჷ", "ჸ", "ჹ", "ჺ", "ჽ", "ჾ", "ჿ", "ᏸ", "ᏹ", "ᏺ", "ᏻ", "ᏼ", "ᏽ", "ᶎ", "ẁ",
     "ẃ", "ẅ", "ẇ", "ẉ", "ẋ", "ẍ", "ẏ", "ẑ", "ẓ", "ẕ", "ẚ", "ạ", "ả", "ấ", "ầ", "ẩ", "ẫ", "ậ",
     "ắ", "ằ", "ẳ", "ẵ", "ặ", "ẹ", "ẻ", "ẽ", "ế", "ề", "ể", "ễ", "ệ", "ỉ", "ị", "ọ", "ỏ", "ố",
     "ồ", "ổ", "ỗ", "ộ", "ớ", "ờ", "ở", "ỡ", "ợ", "ụ", "ủ", "ứ", "ừ", "ử", "ữ", "ự", "ỳ", "ỵ",
     "ỷ", "ỹ", "ỻ", "ỽ", "ỿ", "ᾰ", "ᾱ", "ᾲ", "ᾳ", "ᾴ", "ᾼ", "ι", "ῂ", "ῃ", "ῄ", "ῌ", "ῐ", "ῑ",
     "ῠ", "ῡ", "ῥ", "ῲ", "ῳ", "ῴ", "ῼ", "ↄ", "ⓐ", "ⓑ", "ⓒ", "ⓓ", "ⓔ", "ⓕ", "ⓖ", "ⓗ", "ⓘ", "ⓙ",
     "ⓚ", "ⓛ", "ⓜ", "ⓝ", "ⓞ", "ⓟ", "ⓠ", "ⓡ", "ⓢ", "ⓣ", "ⓤ", "ⓥ", "ⓦ", "ⓧ", "ⓨ", "ⓩ", "ⲁ", "ⲃ",
     "ⲅ", "ⲇ", "ⲉ", "ⲋ", "ⲍ", "ⲏ", "ⲑ", "ⲓ", "ⲕ", "ⲗ", "ⲙ", "ⲛ", "ⲝ", "ⲟ", "ⲡ", "ⲣ", "ⲥ", "ⲧ",
     "ⲩ", "ⲫ", "ⲭ", "ⲯ", "ⲱ", "ⲳ", "ⲵ", "ⲷ", "ⲹ", "ⲻ", "ⲽ", "ⲿ", "ⳁ", "ⳃ", "ⳅ", "ⳇ", "ⳉ", "ⳋ",
     "ⳍ", "ⳏ", "ⳑ", "ⳓ", "ⳕ", "ⳗ", "ⳙ", "ⳛ", "ⳝ", "ⳟ", "ⳡ", "ⳣ", "ⳬ", "ⳮ", "ⳳ", "ꚁ", "ꚃ", "ꚅ",
     "ꚇ", "ꚉ", "ꚋ", "ꚍ", "ꚏ", "ꚑ", "ꚓ", "ꚕ", "ꚗ", "ꚙ", "ꚛ", "ꞁ", "ꞃ", "ꞅ", "ꞇ", "ꞌ", "ꞑ", "ꞓ",
     "ꞔ", "ꞗ", "ꞙ", "ꞛ", "ꞝ", "ꞟ", "ꞡ", "ꞣ", "ꞥ", "ꞧ", "ꞩ", "ꞵ", "ꞷ", "ꞹ", "ꞻ", "ꞽ", "ꞿ", "ꟁ",
     "ꟃ", "ꟈ", "ꟊ", "ꟑ", "ꟗ", "ꟙ", "ꟶ", "ꮀ", "ꮁ", "ꮂ", "ꮃ", "ꮄ", "ꮅ", "ꮆ", "ꮇ", "ꮈ", "ꮉ", "ꮊ",
     "ꮋ", "ꮌ", "ꮍ", "ꮎ", "ꮏ", "ꮐ", "ꮑ", "ꮒ", "ꮓ", "ꮔ", "ꮕ", "ꮖ", "ꮗ", "ꮘ", "ꮙ", "ꮚ", "ꮛ", "ꮜ",
     "ꮝ", "ꮞ", "ꮟ", "ꮠ", "ꮡ", "ꮢ", "ꮣ", "ꮤ", "ꮥ", "ꮦ", "ꮧ", "ꮨ", "ꮩ", "ꮪ", "ꮫ", "ꮬ", "ꮭ", "ꮮ",
     "ꮯ", "ꮰ", "ꮱ", "ꮲ", "ꮳ", "ꮴ", "ꮵ", "ꮶ", "ꮷ", "ꮸ", "ꮹ", "ꮺ", "ꮻ", "ꮼ", "ꮽ", "ꮾ", "ꮿ"
    >>
UpperTo ==
    <<
     <<"A">>, <<"B">>, <<"C">>, <<"D">>, <<"E">>, <<"F">>, <<"G">>, <<"H">>, <<"I">>, <<"J">>,
     <<"K">>, <<"L">>, <<"M">>, <<"N">>, <<"O">>, <<"P">>, <<"Q">>, <<"R">>, <<"S">>, <<"T">>,
     <<"U">>, <<"V">>, <<"W">>, <<"X">>, <<"Y">>, <<"Z">>, <<"Μ">>, <<"S", "S">>, <<"À">>,
     <<"Á">>, <<"Â">>, <<"Ã">>, <<"Ä">>, <<"Å">>, <<"Æ">>, <<"Ç">>, <<"È">>, <<"É">>, <<"Ê">>,
     <<"Ë">>, <<"Ì">>, <<"Í">>, <<"Î">>, <<"Ï">>, <<"Ð">>, <<"Ñ">>, <<"Ò">>, <<"Ó">>, <<"Ô">>,
     <<"Õ">>, <<"Ö">>, <<"Ø">>, <<"Ù">>, <<"Ú">>, <<"Û">>, <<"Ü">>, <<"Ý">>, <<"Þ">>, <<"Ƃ">>,
     <<"Ƅ">>, <<"Ƈ">>, <<"Ƌ">>, <<"Ƒ">>, <<"Ƕ">>, <<"Ƙ">>, <<"Ơ">>, <<"Ƣ">>, <<"Ƥ">>, <<"Ƨ">>,
     <<"Ƭ">>, <<"Ư">>, <<"Ƴ">>, <<"Ƶ">>, <<"Ƹ">>, <<"Ƽ">>, <<"Ƿ">>, <<"Ǆ">>, <<"Ǆ">>, <<"Ǉ">>,
     <<"Ǉ">>, <<"Ǌ">>, <<"Ǌ">>, <<"Ǎ">>, <<"Ǐ">>, <<"Ǒ">>, <<"Ǔ">>, <<"Ǖ">>, <<"Ǘ">>, <<"Ǚ">>,
     <<"Ǜ">>, <<"Ǝ">>, <<"Ǟ">>, <<"Ǡ">>, <<"Ǣ">>, <<"Ǥ">>, <<"Ǧ">>, <<"Ǩ">>, <<"Ǫ">>, <<"Ǭ">>,
     <<"Ǯ">>, <<"Ǳ">>, <<"Ǳ">>, <<"Ǵ">>, <<"Ǹ">>, <<"Ǻ">>, <<"Ǽ">>, <<"Ǿ">>, <<"Ʀ">>, <<"Ʂ">>,
     <<"Ʃ">>, <<"Ʇ">>, <<"Ʈ">>, <<"Ʊ">>, <<"Ʋ">>, <<"Ʒ">>, <<"Ʝ">>, <<"Ʞ">>, <<"Ά">>, <<"Έ">>,
     <<"Ή">>, <<"Ί">>, <<"Α">>, <<"Β">>, <<"Γ">>, <<"Δ">>, <<"Ε">>, <<"Ζ">>, <<"Η">>, <<"Θ">>,
     <<"Ι">>, <<"Κ">>, <<"Λ">>, <<"Μ">>, <<"Ν">>, <<"Ξ">>, <<"Ο">>, <<"Π">>, <<"Ρ">>, <<"Σ">>,
     <<"Σ">>, <<"Τ">>, <<"Υ">>, <<"Φ">>, <<"Χ">>, <<"Ψ">>, <<"Ω">>, <<"Ϊ">>, <<"Ϋ">>, <<"Ό">>,
     <<"Ύ">>, <<"Ώ">>, <<"Β">>, <<"Θ">>, <<"Φ">>, <<"Π">>, <<"Ϗ">>, <<"Ϙ">>, <<"Ϛ">>, <<"Ϝ">>,
     <<"Ϟ">>, <<"Ϡ">>, <<"Ϣ">>, <<"Ϥ">>, <<"Ϧ">>, <<"Ϩ">>, <<"Ϫ">>, <<"Ϭ">>, <<"Ϯ">>, <<"Κ">>,
     <<"Ρ">>, <<"Ϲ">>, <<"Ε">>, <<"Ϸ">>, <<"Ϻ">>, <<"Ҁ">>, <<"Ҋ">>, <<"Ҍ">>, <<"Ҏ">>, <<"Ґ">>,
     <<"Ғ">>, <<"Ҕ">>, <<"Җ">>, <<"Ҙ">>, <<"Қ">>, <<"Ҝ">>, <<"Ҟ">>, <<"Ҡ">>, <<"Ң">>, <<"Ҥ">>,
     <<"Ҧ">>, <<"Ҩ">>, <<"Ҫ">>, <<"Ҭ">>, <<"Ү">>, <<"Ұ">>, <<"Ҳ">>, <<"Ҵ">>, <<"Ҷ">>, <<"Ҹ">>,
     <<"Һ">>, <<"Ҽ">>, <<"Ҿ">>, <<"Ӂ">>, <<"Ӄ">>, <<"Ӆ">>, <<"Ӈ">>, <<"Ӊ">>, <<"Ӌ">>, <<"Ӎ">>,
     <<"Ӏ">>, <<"Ӑ">>, <<"Ӓ">>, <<"Ӕ">>, <<"Ӗ">>, <<"Ә">>, <<"Ӛ">>, <<"Ӝ">>, <<"Ӟ">>, <<"Ӡ">>,
     <<"Ӣ">>, <<"Ӥ">>, <<"Ӧ">>, <<"Ө">>, <<"Ӫ">>, <<"Ӭ">>, <<"Ӯ">>, <<"Ӱ">>, <<"Ӳ">>, <<"Ӵ">>,
     <<"Ӷ">>, <<"Ӹ">>, <<"Ӻ">>, <<"Ӽ">>, <<"Ӿ">>, <<"Ა">>, <<"Ბ">>, <<"Გ">>, <<"Დ">>, <<"Ე">>,
     <<"Ვ">>, <<"Ზ">>, <<"Თ">>, <<"Ი">>, <<"Კ">>, <<"Ლ">>, <<"Მ">>, <<"Ნ">>, <<"Ო">>, <<"Პ">>,
     <<"Ჟ">>, <<"Რ">>, <<"Ს">>, <<"Ტ">>, <<"Უ">>, <<"Ფ">>, <<"Ქ">>, <<"Ღ">>, <<"Ყ">>, <<"Შ">>,
     <<"Ჩ">>, <<"Ც">>, <<"Ძ">>, <<"Წ">>, <<"Ჭ">>, <<"Ხ">>, <<"Ჯ">>, <<"Ჰ">>, <<"Ჱ">>, <<"Ჲ">>,
     <<"Ჳ">>, <<"Ჴ">>, <<"Ჵ">>, <<"Ჶ">>, <<"Ჷ">>, <<"Ჸ">>, <<"Ჹ">>, <<"Ჺ">>, <<"Ჽ">>, <<"Ჾ">>,
     <<"Ჿ">>, <<"Ᏸ">>, <<"Ᏹ">>, <<"Ᏺ">>, <<"Ᏻ">>, <<"Ᏼ">>, <<"Ᏽ">>, <<"Ᶎ">>, <<"Ẁ">>, <<"Ẃ">>,
     <<"Ẅ">>, <<"Ẇ">>, <<"Ẉ">>, <<"Ẋ">>, <<"Ẍ">>, <<"Ẏ">>, <<"Ẑ">>, <<"Ẓ">>, <<"Ẕ">>,
     <<"A", "ʾ">>, <<"Ạ">>, <<"Ả">>, <<"Ấ">>, <<"Ầ">>, <<"Ẩ">>, <<"Ẫ">>, <<"Ậ">>, <<"Ắ">>,
     <<"Ằ">>, <<"Ẳ">>, <<"Ẵ">>, <<"Ặ">>, <<"Ẹ">>, <<"Ẻ">>, <<"Ẽ">>, <<"Ế">>, <<"Ề">>, <<"Ể">>,
     <<"Ễ">>, <<"Ệ">>, <<"Ỉ">>, <<"Ị">>, <<"Ọ">>, <<"Ỏ">>, <<"Ố">>, <<"Ồ">>, <<"Ổ">>, <<"Ỗ">>,
     <<"Ộ">>, <<"Ớ">>, <<"Ờ">>, <<"Ở">>, <<"Ỡ">>, <<"Ợ">>, <<"Ụ">>, <<"Ủ">>, <<"Ứ">>, <<"Ừ">>,
     <<"Ử">>, <<"Ữ">>, <<"Ự">>, <<"Ỳ">>, <<"Ỵ">>, <<"Ỷ">>, <<"Ỹ">>, <<"Ỻ">>, <<"Ỽ">>, <<"Ỿ">>,
     <<"Ᾰ">>, <<"Ᾱ">>, <<"Ὰ", "Ι">>, <<"Α", "Ι">>, <<"Ά", "Ι">>, <<"Α", "Ι">>, <<"Ι">>,
     <<"Ὴ", "Ι">>, <<"Η", "Ι">>, <<"Ή", "Ι">>, <<"Η", "Ι">>, <<"Ῐ">>, <<"Ῑ">>, <<"Ῠ">>,
     <<"Ῡ">>, <<"Ῥ">>, <<"Ὼ", "Ι">>, <<"Ω", "Ι">>, <<"Ώ", "Ι">>, <<"Ω", "Ι">>, <<"Ↄ">>,
     <<"Ⓐ">>, <<"Ⓑ">>, <<"Ⓒ">>, <<"Ⓓ">>, <<"Ⓔ">>, <<"Ⓕ">>, <<"Ⓖ">>, <<"Ⓗ">>, <<"Ⓘ">>, <<"Ⓙ">>,
     <<"Ⓚ">>, <<"Ⓛ">>, <<"Ⓜ">>, <<"Ⓝ">>, <<"Ⓞ">>, <<"Ⓟ">>, <<"Ⓠ">>, <<"Ⓡ">>, <<"Ⓢ">>, <<"Ⓣ">>,
     <<"Ⓤ">>, <<"Ⓥ">>, <<"Ⓦ">>, <<"Ⓧ">>, <<"Ⓨ">>, <<"Ⓩ">>, <<"Ⲁ">>, <<"Ⲃ">>, <<"Ⲅ">>, <<"Ⲇ">>,
     <<"Ⲉ">>, <<"Ⲋ">>, <<"Ⲍ">>, <<"Ⲏ">>, <<"Ⲑ">>, <<"Ⲓ">>, <<"Ⲕ">>, <<"Ⲗ">>, <<"Ⲙ">>, <<"Ⲛ">>,
     <<"Ⲝ">>, <<"Ⲟ">>, <<"Ⲡ">>, <<"Ⲣ">>, <<"Ⲥ">>, <<"Ⲧ">>, <<"Ⲩ">>, <<"Ⲫ">>, <<"Ⲭ">>, <<"Ⲯ">>,
     <<"Ⲱ">>, <<"Ⲳ">>, <<"Ⲵ">>, <<"Ⲷ">>, <<"Ⲹ">>, <<"Ⲻ">>, <<"Ⲽ">>, <<"Ⲿ">>, <<"Ⳁ">>, <<"Ⳃ">>,
     <<"Ⳅ">>, <<"Ⳇ">>, <<"Ⳉ">>, <<"Ⳋ">>, <<"Ⳍ">>, <<"Ⳏ">>, <<"Ⳑ">>, <<"Ⳓ">>, <<"Ⳕ">>, <<"Ⳗ">>,
     <<"Ⳙ">>, <<"Ⳛ">>, <<"Ⳝ">>, <<"Ⳟ">>, <<"Ⳡ">>, <<"Ⳣ">>, <<"Ⳬ">>, <<"Ⳮ">>, <<"Ⳳ">>, <<"Ꚁ">>,
     <<"Ꚃ">>, <<"Ꚅ">>, <<"Ꚇ">>, <<"Ꚉ">>, <<"Ꚋ">>, <<"Ꚍ">>, <<"Ꚏ">>, <<"Ꚑ">>, <<"Ꚓ">>, <<"Ꚕ">>,
     <<"Ꚗ">>, <<"Ꚙ">>, <<"Ꚛ">>, <<"Ꞁ">>, <<"Ꞃ">>, <<"Ꞅ">>, <<"Ꞇ">>, <<"Ꞌ">>, <<"Ꞑ">>, <<"Ꞓ">>,
     <<"Ꞔ">>, <<"Ꞗ">>, <<"Ꞙ">>, <<"Ꞛ">>, <<"Ꞝ">>, <<"Ꞟ">>, <<"Ꞡ">>, <<"Ꞣ">>, <<"Ꞥ">>, <<"Ꞧ">>,
     <<"Ꞩ">>, <<"Ꞵ">>, <<"Ꞷ">>, <<"Ꞹ">>, <<"Ꞻ">>, <<"Ꞽ">>, <<"Ꞿ">>, <<"Ꟁ">>, <<"Ꟃ">>, <<"Ꟈ">>,
     <<"Ꟊ">>, <<"Ꟑ">>, <<"Ꟗ">>, <<"Ꟙ">>, <<"Ꟶ">>, <<"Ꮀ">>, <<"Ꮁ">>, <<"Ꮂ">>, <<"Ꮃ">>, <<"Ꮄ">>,
     <<"Ꮅ">>, <<"Ꮆ">>, <<"Ꮇ">>, <<"Ꮈ">>, <<"Ꮉ">>, <<"Ꮊ">>, <<"Ꮋ">>, <<"Ꮌ">>, <<"Ꮍ">>, <<"Ꮎ">>,
     <<"Ꮏ">>, <<"Ꮐ">>, <<"Ꮑ">>, <<"Ꮒ">>, <<"Ꮓ">>, <<"Ꮔ">>, <<"Ꮕ">>, <<"Ꮖ">>, <<"Ꮗ">>, <<"Ꮘ">>,
     <<"Ꮙ">>, <<"Ꮚ">>, <<"Ꮛ">>, <<"Ꮜ">>, <<"Ꮝ">>, <<"Ꮞ">>, <<"Ꮟ">>, <<"Ꮠ">>, <<"Ꮡ">>, <<"Ꮢ">>,
     <<"Ꮣ">>, <<"Ꮤ">>, <<"Ꮥ">>, <<"Ꮦ">>, <<"Ꮧ">>, <<"Ꮨ">>, <<"Ꮩ">>, <<"Ꮪ">>, <<"Ꮫ">>, <<"Ꮬ">>,
     <<"Ꮭ">>, <<"Ꮮ">>, <<"Ꮯ">>, <<"Ꮰ">>, <<"Ꮱ">>, <<"Ꮲ">>, <<"Ꮳ">>, <<"Ꮴ">>, <<"Ꮵ">>, <<"Ꮶ">>,
     <<"Ꮷ">>, <<"Ꮸ">>, <<"Ꮹ">>, <<"Ꮺ">>, <<"Ꮻ">>, <<"Ꮼ">>, <<"Ꮽ">>, <<"Ꮾ">>, <<"Ꮿ">>
    >>
UpperOf == [c \in Range(UpperFrom) |-> UpperTo[IndexOf(UpperFrom, c)]]
\* the characters str.upper() changes into some this module cannot hold
UpperOutside ==
    {
     "ÿ", "ƀ", "ƚ", "ƞ", "ǰ", "ʉ", "ʌ", "ΐ", "ΰ", "ϳ", "ր", "ց", "ւ", "փ", "ք", "օ", "ֆ", "և",
     "ᲀ", "ᲁ", "ᲂ", "ᲃ", "ᲄ", "ᲅ", "ᲆ", "ᲇ", "ᲈ", "ẖ", "ẗ", "ẘ", "ẙ", "ẛ", "ᾀ", "ᾁ", "ᾂ", "ᾃ",
     "ᾄ", "ᾅ", "ᾆ", "ᾇ", "ᾈ", "ᾉ", "ᾊ", "ᾋ", "ᾌ", "ᾍ", "ᾎ", "ᾏ", "ᾐ", "ᾑ", "ᾒ", "ᾓ", "ᾔ", "ᾕ",
     "ᾖ", "ᾗ", "ᾘ", "ᾙ", "ᾚ", "ᾛ", "ᾜ", "ᾝ", "ᾞ", "ᾟ", "ᾠ", "ᾡ", "ᾢ", "ᾣ", "ᾤ", "ᾥ", "ᾦ", "ᾧ",
     "ᾨ", "ᾩ", "ᾪ", "ᾫ", "ᾬ", "ᾭ", "ᾮ", "ᾯ", "ᾶ", "ᾷ", "ῆ", "ῇ", "ῒ", "ΐ", "ῖ", "ῗ", "ῢ", "ΰ",
     "ῤ", "ῦ", "ῧ", "ῶ", "ῷ"
    }
UpperChar(c) ==
    IF c \in DOMAIN UpperOf THEN UpperOf[c]
    ELSE IF c \in UpperOutside THEN Unwritable(c)
    ELSE <<c>>
RECURSIVE upper(_)
upper(s) == IF s = <<>> THEN <<>> ELSE UpperChar(Head(s)) \o upper(Tail(s))

\* str.strip()
strip(s) ==
    LET keep == {i \in 1..Len(s) : ~IsSpace(s[i])}
    IN  IF keep = {} THEN <<>> ELSE SubSeq(s, SetMin(keep), SetMax(keep))

\* int(str): optional surrounding whitespace, an optional sign, then decimal
\* digits which single underscores may separate; anything else raises
\* ValueError.
RECURSIVE DigitsValue(_)
DigitsValue(s) ==
    IF s = <<>> THEN 0
    ELSE LET last == s[Len(s)]
             front == SubSeq(s, 1, Len(s) - 1)
         IN  IF last = "_" THEN DigitsValue(front)
             ELSE 10 * DigitsValue(front) + DecimalValue(last)

int(s) ==
    LET keep == {i \in 1..Len(s) : ~IsIntSpace(s[i])}
        t == IF keep = {} THEN <<>> ELSE SubSeq(s, SetMin(keep), SetMax(keep))
        signed == t # <<>> /\ t[1] \in {"+", "-"}
        body == IF signed THEN SubSeq(t, 2, Len(t)) ELSE t
        wellFormed ==
            /\ body # <<>>
            /\ \A i \in 1..Len(body) : isdecimal(body[i]) \/ body[i] = "_"
            /\ isdecimal(body[1]) /\ isdecimal(body[Len(body)])
            /\ \A i \in 1..(Len(body) - 1) : ~(body[i] = "_" /\ body[i + 1] = "_")
    IN  IF ~wellFormed THEN [error |-> "ValueError", value |-> 0]
        ELSE [error |-> "none",
              value |-> IF signed /\ t[1] = "-" THEN 0 - DigitsValue(body) ELSE DigitsValue(body)]

\* ------------------------------------------------------------------------
\* Literals of the program
\* ------------------------------------------------------------------------

\* None, kept apart from every string (a string has one-character elements)
None == <<"None">>
YES == <<"Y", "E", "S">>
DevPrefix == <<"/", "d", "e", "v", "/">>
DefaultLabel == <<"O", "G", "_", "U", "S", "B">>
Unknown == <<"U", "n", "k", "n", "o", "w", "n">>
usb == <<"u", "s", "b">>
vfat == <<"v", "f", "a", "t">>
exfat == <<"e", "x", "f", "a", "t">>
ntfs == <<"n", "t", "f", "s">>
ext4 == <<"e", "x", "t", "4">>
\* a tag format_partition does not support
btrfs == <<"b", "t", "r", "f", "s">>

\* ------------------------------------------------------------------------
\* USBDevice
\* ------------------------------------------------------------------------

\* 1024 ** 3
BytesPerGB == 1073741824

\* a size in bytes: gib * BytesPerGB + rem
Bytes(gib, rem) == [gib |-> gib, rem |-> rem]

USBDevice(device, size, model) == [device |-> device, size |-> size, model |-> model]

\* size / (1024 ** 3): the quotient whole + frac / BytesPerGB
get_size_gb(size) == [whole |-> size.gib, frac |-> size.rem]

\* size_gb <= k, for an integer k
LeqGB(size_gb, k) == size_gb.whole < k \/ (size_gb.whole = k /\ size_gb.frac = 0)

\* ------------------------------------------------------------------------
\* Filesystem recommendation
\* ------------------------------------------------------------------------

SmallDriveGB == 4
MediumDriveGB == 32

\* the recommendation with the upper boundary exclusive
recommend_filesystem_exclusive(size_gb) ==
    IF LeqGB(size_gb, SmallDriveGB) THEN vfat
    ELSE IF size_gb.whole < MediumDriveGB THEN vfat
    ELSE exfat

recommend_filesystem(size_gb) ==
    IF LeqGB(size_gb, SmallDriveGB) THEN vfat
    ELSE IF LeqGB(size_gb, MediumDriveGB) THEN vfat
    ELSE exfat

\* get_filesystem_label: the name shown to the operator
get_filesystem_label(fs) ==
    IF fs = vfat THEN <<"F", "A", "T", "3", "2">>
    ELSE IF fs = exfat THEN <<"e", "x", "F", "A", "T">>
    ELSE IF fs = ntfs THEN <<"N", "T", "F", "S">>
    ELSE IF fs = ext4 THEN <<"e", "x", "t", "4">>
    ELSE upper(fs)

\* ------------------------------------------------------------------------
\* External commands.  An invocation ends "ok" (exit status 0), "nonzero"
\* (CalledProcessError under check=True) or "missing" (the utility is not
\* on the host: FileNotFoundError).
\* ------------------------------------------------------------------------

Outcomes == {"ok", "nonzero", "missing"}

\* label is the volume label handed to mkfs, empty for every other command;
\* stdout is the output verify_device looks at, empty for every other command
Cmd(tool, op, target, out) ==
    [tool |-> tool, op |-> op, target |-> target, label |-> <<>>, stdout |-> <<>>, out |-> out]

\* subprocess.run(..., check=True) over a plan of commands: they run in order
\* and the first one that does not end "ok" raises, so nothing after it runs.
RunChecked(plan, outs) ==
    LET bad == {i \in 1..Len(plan) : outs[i] # "ok"}
        n == IF bad = {} THEN Len(plan) ELSE SetMin(bad)
    IN  [i \in 1..n |-> [plan[i] EXCEPT !.out = outs[i]]]

\* the exception a checked run ended with
Raised(run) ==
    IF run = <<>> \/ run[Len(run)].out = "ok" THEN "none"
    ELSE IF run[Len(run)].out = "nonzero" THEN "CalledProcessError"
    ELSE "FileNotFoundError"

\* ------------------------------------------------------------------------
\* The stages of the pipeline.  Each returns the commands it issued (cmds),
\* its result (ret: "True", "False", or the name of the exception that
\* leaves it uncaught) and the diagnostic it printed (diag).
\* ------------------------------------------------------------------------

StageResult(cmds, ret, diag) == [cmds |-> cmds, ret |-> ret, diag |-> diag]

\* result.stdout.strip().split('\n'): an empty output still gives one (empty) line
SplitLines(stdout) == IF stdout = <<>> THEN << <<>> >> ELSE stdout

\* an unmount that also unmounts the line naming the device itself
unmount_device_unfiltered(device, listing, umountOuts) ==
    LET ls == Cmd("lsblk", "-ln", device, listing.out)
        lines == SplitLines(listing.stdout)
        partition(i) == DevPrefix \o strip(lines[i])
        umounts == [i \in 1..Len(lines) |-> Cmd("umount", "", partition(i), umountOuts[i])]
    IN  IF listing.out = "missing" THEN <<ls>> ELSE <<ls>> \o umounts

\* unmount_device: list the device's partitions (no check: a non-zero exit is
\* ignored), umount every listed name but the device itself; every exception
\* is swallowed.  listing = [out, stdout]; umountOuts[i] is the outcome of the
\* umount of line i.
unmount_device(device, listing, umountOuts) ==
    LET ls == Cmd("lsblk", "-ln", device, listing.out)
        lines == SplitLines(listing.stdout)
        partition(i) == DevPrefix \o strip(lines[i])
        umounts == SelectSeq([i \in 1..Len(lines) |->
                                 Cmd("umount", "", partition(i), umountOuts[i])],
                             LAMBDA c : c.target # device)
    IN  IF listing.out = "missing" THEN <<ls>> ELSE <<ls>> \o umounts

\* a wipe that zeroes the device before unmounting its partitions
wipe_device_dd_first(device, listing, umountOuts, ddOut, syncOut) ==
    LET run == RunChecked(<<Cmd("dd", "if=/dev/zero", device, "ok"),
                            Cmd("sync", "", <<>>, "ok")>>, <<ddOut, syncOut>>)
        cmds == run \o unmount_device(device, listing, umountOuts)
    IN  IF Raised(run) = "none" THEN StageResult(cmds, "True", "wiped")
        ELSE IF Raised(run) = "CalledProcessError" THEN StageResult(cmds, "False", "wipe_error")
        ELSE StageResult(cmds, Raised(run), "none")

\* wipe_device: unmount, dd the first 100 MB, sync; only CalledProcessError is caught
wipe_device(device, listing, umountOuts, ddOut, syncOut) ==
    LET run == RunChecked(<<Cmd("dd", "if=/dev/zero", device, "ok"),
                            Cmd("sync", "", <<>>, "ok")>>, <<ddOut, syncOut>>)
        cmds == unmount_device(device, listing, umountOuts) \o run
    IN  IF Raised(run) = "none" THEN StageResult(cmds, "True", "wiped")
        ELSE IF Raised(run) = "CalledProcessError" THEN StageResult(cmds, "False", "wipe_error")
        ELSE StageResult(cmds, Raised(run), "none")

\* create_partition: GPT label, one partition 0%-100%, sync, sleep;
\* only CalledProcessError is caught
create_partition(device, mklabelOut, mkpartOut, syncOut) ==
    LET run == RunChecked(<<Cmd("parted", "mklabel gpt", device, "ok"),
                            Cmd("parted", "mkpart primary 0% 100%", device, "ok"),
                            Cmd("sync", "", <<>>, "ok")>>,
                          <<mklabelOut, mkpartOut, syncOut>>)
    IN  IF Raised(run) = "none"
        THEN StageResult(run \o <<Cmd("time.sleep", "2", <<>>, "ok")>>, "True", "partitioned")
        ELSE IF Raised(run) = "CalledProcessError"
        THEN StageResult(run, "False", "partition_error")
        ELSE StageResult(run, Raised(run), "none")

\* the partition name format_partition determines
format_partition_path(device) ==
    IF isdigit(device[Len(device)]) THEN device \o <<"p", "1">> ELSE device \o <<"1">>

SupportedFilesystems == {vfat, exfat, ntfs, ext4}

\* a tag table that falls back to FAT32
mkfs_tool_fallback(fs_type) ==
    IF fs_type = exfat THEN "mkfs.exfat"
    ELSE IF fs_type = ntfs THEN "mkfs.ntfs"
    ELSE IF fs_type = ext4 THEN "mkfs.ext4"
    ELSE "mkfs.vfat"

\* the utility format_partition runs for a filesystem tag
mkfs_tool(fs_type) ==
    IF fs_type = vfat THEN "mkfs.vfat"
    ELSE IF fs_type = exfat THEN "mkfs.exfat"
    ELSE IF fs_type = ntfs THEN "mkfs.ntfs"
    ELSE IF fs_type = ext4 THEN "mkfs.ext4"
    ELSE "none"

\* format_partition: mkfs.<fs> with the label on the partition, then sync;
\* an unsupported tag returns False before anything runs; CalledProcessError
\* and FileNotFoundError are both caught
format_partition(device, fs_type, label, mkfsOut, syncOut) ==
    LET partition == format_partition_path(device)
        run == RunChecked(<<[Cmd(mkfs_tool(fs_type), "mkfs", partition, "ok") EXCEPT !.label = label],
                            Cmd("sync", "", <<>>, "ok")>>, <<mkfsOut, syncOut>>)
    IN  IF mkfs_tool(fs_type) = "none" THEN StageResult(<<>>, "False", "unsupported_filesystem")
        ELSE IF Raised(run) = "none" THEN StageResult(run, "True", "formatted")
        ELSE IF Raised(run) = "CalledProcessError" THEN StageResult(run, "False", "format_error")
        ELSE StageResult(run, "False", "tool_not_found")

\* a partition name that never inserts the "p"
verify_partition_path_plain(device) == device \o <<"1">>

\* the partition name verify_device determines
verify_partition_path(device) ==
    IF isdigit(device[Len(device)]) THEN device \o <<"p", "1">> ELSE device \o <<"1">>

\* verify_device: lsblk -f on the partition; any output at all is success;
\* only CalledProcessError is caught.  query = [out, stdout].
verify_device(device, query) ==
    LET run == RunChecked(<<[Cmd("lsblk", "-f", verify_partition_path(device), "ok")
                                EXCEPT !.stdout = query.stdout]>>,
                          <<query.out>>)
    IN  IF Raised(run) = "CalledProcessError" THEN StageResult(run, "False", "verify_error")
        ELSE IF Raised(run) = "FileNotFoundError" THEN StageResult(run, Raised(run), "none")
        ELSE IF query.stdout # <<>> THEN StageResult(run, "True", "verified")
        ELSE StageResult(run, "False", "verification_failed")

\* ------------------------------------------------------------------------
\* Device discovery
\* ------------------------------------------------------------------------

\* line.split() of one lsblk line: NAME, SIZE, then the remaining columns
Parts(line) == <<line.name, line.size>> \o line.rest

\* " ".join(parts[3:])
RECURSIVE JoinWords(_)
JoinWords(words) ==
    IF words = <<>> THEN <<>>
    ELSE IF Len(words) = 1 THEN words[1]
    ELSE words[1] \o <<" ">> \o JoinWords(Tail(words))

\* the USBDevice a line yields, for a line that passes the transport filter
ParseLine(line) ==
    LET parts == Parts(line)
    IN  USBDevice(DevPrefix \o parts[1], parts[2],
                  IF Len(parts) > 3 THEN JoinWords(SubSeq(parts, 4, Len(parts))) ELSE Unknown)

\* a filter that keeps every line of at least three fields
IsUsbLine_any_transport(line) == Len(Parts(line)) >= 3

\* the lines of at least three fields whose third field is "usb"
IsUsbLine(line) == Len(Parts(line)) >= 3 /\ Parts(line)[3] = usb

\* discovery that parses whatever lsblk printed, whatever its exit status
detect_usb_devices_unchecked(inventory) ==
    LET kept == SelectSeq(inventory.lines, IsUsbLine)
    IN  [i \in 1..Len(kept) |-> ParseLine(kept[i])]

\* detect_usb_devices: inventory = [out, lines].  A failing or missing lsblk
\* leaves the list empty; otherwise the usb lines in inventory order.
detect_usb_devices(inventory) ==
    IF inventory.out # "ok" THEN <<>>
    ELSE LET kept == SelectSeq(inventory.lines, IsUsbLine)
         IN  [i \in 1..Len(kept) |-> ParseLine(kept[i])]

\* the diagnostic detect_usb_devices prints
detect_diag(inventory) ==
    IF inventory.out = "nonzero" THEN "detect_error"
    ELSE IF inventory.out = "missing" THEN "lsblk_not_found"
    ELSE "none"

\* ------------------------------------------------------------------------
\* What the host and the operator can supply
\* ------------------------------------------------------------------------

sdb == <<"s", "d", "b">>
sdc == <<"s", "d", "c">>
sda == <<"s", "d", "a">>
mmcblk0 == <<"m", "m", "c", "b", "l", "k", "0">>
loop0 == <<"l", "o", "o", "p", "0">>

\* lsblk -b -d -o NAME,SIZE,TRAN,MODEL -n lines the host may print
InventoryLines ==
    { [name |-> sdb, size |-> Bytes(8, 0), rest |-> <<usb, <<"R", "d", "r">> >>],
      [name |-> sdc, size |-> Bytes(32, 1), rest |-> <<usb>>],
      [name |-> mmcblk0, size |-> Bytes(4, 0), rest |-> <<usb, <<"S", "a", "n">>, <<"U", "l">> >>],
      [name |-> sda, size |-> Bytes(500, 0), rest |-> << <<"s", "a", "t", "a">>, <<"S", "S", "D">> >>],
      [name |-> loop0, size |-> Bytes(1, 0), rest |-> <<>>] }

\* up to n lines, one per block device
LineSeqs(n) ==
    {l \in UNION {[1..k -> InventoryLines] : k \in 0..n} :
        \A i, j \in 1..Len(l) : l[i].name = l[j].name => i = j}

\* a successful lsblk prints up to MaxInventory lines; one that exits non-zero
\* may have printed a line before it failed; a missing one prints nothing
Inventories ==
    {[out |-> "ok", lines |-> l] : l \in LineSeqs(MaxInventory)}
        \cup {[out |-> "nonzero", lines |-> l] : l \in LineSeqs(1)}
        \cup {[out |-> "missing", lines |-> <<>>]}

\* lsblk -ln -o NAME <device>: the device alone, or the device and one
\* partition; nothing when lsblk fails or is missing
FirstPartition(name) ==
    (IF isdigit(name[Len(name)]) THEN name \o <<"p">> ELSE name) \o <<"1">>

Listings(device) ==
    LET name == SubSeq(device, Len(DevPrefix) + 1, Len(device))
    IN  {[out |-> "ok", stdout |-> <<name>>],
         [out |-> "ok", stdout |-> <<name, FirstPartition(name)>>],
         [out |-> "nonzero", stdout |-> <<>>],
         [out |-> "missing", stdout |-> <<>>]}

\* lsblk -f <partition>: nothing, a row without a filesystem type, a row with one
VerifyQueries ==
    {[out |-> "ok", stdout |-> t] : t \in {<<>>, <<"NAME FSTYPE", "part">>, <<"NAME FSTYPE", "part fs">>}}
        \cup {[out |-> o, stdout |-> <<>>] : o \in {"nonzero", "missing"}}

RetryInputs == {<<>>, <<"q">>, <<"Q">>, <<"x">>}
DeviceInputs == {<<"q">>, <<"Q">>, <<"1">>, <<"2">>, <<"3">>, <<"0">>, <<"-", "1">>,
                 <<" ", "۲", "\r">>, <<"x">>, <<>>, <<"1", "_">>, <<"0", "_", "1">>}
FsInputs == {<<"1">>, <<"2">>, <<"3">>, <<"4">>, <<"5">>, <<"b">>, <<"B">>, <<"6">>,
             <<>>, <<" ", "1">>}
LabelInputs == {<<>>, <<" ", "\f">>, <<" ", "A", "\r">>}
ConfirmInputs == {YES, <<"y", "e", "s">>, <<"Y", "e", "s">>, <<"Y", "E", "S", " ">>, <<>>, <<"y">>}
AgainInputs == {<<"y">>, <<"Y">>, <<"n">>, <<>>}

\* ------------------------------------------------------------------------
\* State
\* ------------------------------------------------------------------------

VARIABLES
    pc,               \* where the program is
    is_root,          \* OG_USB.is_root
    devices,          \* OG_USB.devices
    inventory,        \* what lsblk printed at the detection pass just made, until
                      \* the operator answers the prompt that follows it
    selected_device,  \* show_menu's selected_device, passed to format_usb as device
    menu_fs_type,     \* show_menu's fs_type (None for auto-detect)
    label,            \* show_menu's label, passed to format_usb
    fs_type,          \* format_usb's fs_type, None outside a call
    recommended,      \* the filesystem format_usb recommended, None if it did not
    shown,            \* what this iteration displayed: the menu's "Recommended:"
                      \* name, the confirmation's "Filesystem:" and "Label:"
    inp,              \* the last line read from the operator
    cmds,             \* the external commands issued in this loop iteration
    stages,           \* the stages format_usb invoked, each with its result
    ret,              \* what format_usb returned or raised
    discovery_diag,   \* the diagnostic the last detection pass printed
    diag,             \* the last other diagnostic printed; "none" once an
                      \* iteration has begun without one
    exit_status,      \* the process exit status, -1 while running
    ended_by          \* what ended the session

vars == <<pc, is_root, devices, inventory, selected_device, menu_fs_type, label, fs_type, recommended,
          shown, inp, cmds, stages, ret, discovery_diag, diag, exit_status, ended_by>>

\* the locals of show_menu, which keep their values from one iteration to the next
menu_locals == <<selected_device, menu_fs_type, label>>
\* the record of one loop iteration: format_usb's frame and what was issued
iteration == <<fs_type, recommended, shown, cmds, stages, ret>>
\* the process's end
ending == <<exit_status, ended_by>>

NoDevice == USBDevice(<<>>, Bytes(0, 0), <<>>)

\* nothing displayed yet in this iteration
NothingShown == [menu |-> None, fs |-> None, label |-> None]

\* no detection pass has just been made
NoInventory == [out |-> "none", lines |-> <<>>]

\* ------------------------------------------------------------------------
\* Decisions of run, show_menu and format_usb
\* ------------------------------------------------------------------------

\* a privilege check that lets everyone through
check_root_skipped(root) == TRUE

\* check_root
check_root(root) == root

\* response.lower() == 'q'
is_quit(response) == lower(response) = <<"q">>

\* a device prompt that takes a number past the end of the list for the last device
select_device_clamped(choice, devs) ==
    LET n == int(choice)
        device_idx == n.value - 1
    IN  IF is_quit(choice) THEN [kind |-> "quit", idx |-> 0]
        ELSE IF n.error # "none" THEN [kind |-> "invalid_input", idx |-> 0]
        ELSE IF device_idx < 0 THEN [kind |-> "invalid_selection", idx |-> 0]
        ELSE IF device_idx >= Len(devs) THEN [kind |-> "selected", idx |-> Len(devs)]
        ELSE [kind |-> "selected", idx |-> device_idx + 1]

\* the device prompt: quit, ValueError, out of range, or the selected index
select_device(choice, devs) ==
    LET n == int(choice)
        device_idx == n.value - 1
    IN  IF is_quit(choice) THEN [kind |-> "quit", idx |-> 0]
        ELSE IF n.error # "none" THEN [kind |-> "invalid_input", idx |-> 0]
        ELSE IF device_idx < 0 \/ device_idx >= Len(devs)
        THEN [kind |-> "invalid_selection", idx |-> 0]
        ELSE [kind |-> "selected", idx |-> device_idx + 1]

\* a menu mapping whose option 4 is a filesystem the Format stage does not know
fs_map_btrfs(fs_choice) ==
    IF fs_choice = <<"1">> THEN vfat
    ELSE IF fs_choice = <<"2">> THEN exfat
    ELSE IF fs_choice = <<"3">> THEN ntfs
    ELSE IF fs_choice = <<"4">> THEN btrfs
    ELSE None

\* fs_map.get(fs_choice)
fs_map(fs_choice) ==
    IF fs_choice = <<"1">> THEN vfat
    ELSE IF fs_choice = <<"2">> THEN exfat
    ELSE IF fs_choice = <<"3">> THEN ntfs
    ELSE IF fs_choice = <<"4">> THEN ext4
    ELSE None

\* a filesystem prompt that takes an unknown code for FAT32
select_filesystem_default(fs_choice) ==
    IF lower(fs_choice) = <<"b">> THEN [kind |-> "back", fs |-> None]
    ELSE IF fs_map(fs_choice) = None /\ fs_choice # <<"5">>
    THEN [kind |-> "selected", fs |-> vfat]
    ELSE [kind |-> "selected", fs |-> fs_map(fs_choice)]

\* the filesystem prompt: back, invalid, or the tag (None for auto-detect)
select_filesystem(fs_choice) ==
    IF lower(fs_choice) = <<"b">> THEN [kind |-> "back", fs |-> None]
    ELSE IF fs_map(fs_choice) = None /\ fs_choice # <<"5">>
    THEN [kind |-> "invalid_filesystem", fs |-> None]
    ELSE [kind |-> "selected", fs |-> fs_map(fs_choice)]

\* a label prompt that keeps the entry as typed
select_label_raw(entry) == IF entry = <<>> THEN DefaultLabel ELSE entry

\* the label prompt: stripped, the default when blank
select_label(entry) == IF strip(entry) = <<>> THEN DefaultLabel ELSE strip(entry)

\* format_usb: "if not fs_type" recommends from the device's capacity
not_given(fs) == fs = None \/ fs = <<>>

\* a format_usb that takes FAT32 whenever no filesystem is given
effective_fs_fat(fs, device) == IF not_given(fs) THEN vfat ELSE fs

effective_fs(fs, device) ==
    IF not_given(fs) THEN recommend_filesystem(get_size_gb(device.size)) ELSE fs

\* the filesystem menu's option 5: "Auto-detect (Recommended: ...)"
menu_recommendation(device) ==
    get_filesystem_label(recommend_filesystem(get_size_gb(device.size)))

\* a gate that accepts any spelling of yes
confirmed_any_case(response) == lower(response) = lower(YES)

\* format_usb: the confirmation gate
confirmed(response) == response = YES

\* format_usb going on to the next stage whatever the stage returned
format_usb_step_unchecked(stage_ret, next) ==
    IF stage_ret \in {"True", "False"}
    THEN IF next = "done" THEN [pc |-> "returned", ret |-> stage_ret]
         ELSE [pc |-> next, ret |-> "none"]
    ELSE [pc |-> "raised", ret |-> stage_ret]

\* format_usb after a stage: on "True" go on to next (or return True after
\* the last stage), on "False" return False, otherwise the exception leaves
\* format_usb
format_usb_step(stage_ret, next) ==
    IF stage_ret = "True"
    THEN IF next = "done" THEN [pc |-> "returned", ret |-> "True"]
         ELSE [pc |-> next, ret |-> "none"]
    ELSE IF stage_ret = "False" THEN [pc |-> "returned", ret |-> "False"]
    ELSE [pc |-> "raised", ret |-> stage_ret]

\* again.lower() != 'y'
declines(again) == lower(again) # <<"y">>

\* ------------------------------------------------------------------------
\* The session: run and show_menu
\* ------------------------------------------------------------------------

Init ==
    /\ pc = "start"
    /\ is_root \in BOOLEAN
    /\ devices = <<>>
    /\ inventory = NoInventory
    /\ selected_device = NoDevice
    /\ menu_fs_type = None
    /\ label = <<>>
    /\ fs_type = None
    /\ recommended = None
    /\ shown = NothingShown
    /\ inp = <<>>
    /\ cmds = <<>>
    /\ stages = <<>>
    /\ ret = "none"
    /\ discovery_diag = "none"
    /\ diag = "none"
    /\ exit_status = -1
    /\ ended_by = "none"

\* the loop is left, or the process ends
Exit(status, why) ==
    /\ pc' = "exited"
    /\ exit_status' = status
    /\ ended_by' = why
    /\ UNCHANGED iteration

\* a "continue" that goes back to the device prompt without a detection pass
Continue_no_rescan(report) ==
    /\ pc' = "device_prompt"
    /\ diag' = report
    /\ inventory' = NoInventory
    /\ fs_type' = None
    /\ recommended' = None
    /\ shown' = NothingShown
    /\ cmds' = <<>>
    /\ stages' = <<>>
    /\ ret' = "none"
    /\ UNCHANGED <<devices, discovery_diag, ending>>

\* "continue" after printing report ("none": nothing printed): the rest of
\* the loop body is skipped and the iteration is over.  It assigns nothing:
\* self.devices is as it was.  The program is then at the loop head, where
\* the only thing it can do is the detection pass (Detect).
Continue(report) ==
    /\ pc' = "loop"
    /\ diag' = report
    /\ inventory' = NoInventory
    /\ fs_type' = None
    /\ recommended' = None
    /\ shown' = NothingShown
    /\ cmds' = <<>>
    /\ stages' = <<>>
    /\ ret' = "none"
    /\ UNCHANGED <<devices, discovery_diag, ending>>

\* run: sys.exit(1) without root, otherwise show_menu starts at the loop head
Run ==
    /\ pc = "start"
    /\ IF check_root(is_root)
       THEN /\ pc' = "loop"
            /\ UNCHANGED <<diag, iteration, ending>>
       ELSE /\ Exit(1, "not_root")
            /\ diag' = "requires_root"
    /\ UNCHANGED <<is_root, devices, inventory, discovery_diag, menu_locals, inp>>

\* the loop head: detect_usb_devices() runs lsblk and waits for it; lsblk
\* prints one of the inventories or fails, and self.devices is rebuilt from
\* what it printed; list_devices() displays the list; with no device the
\* retry prompt follows, otherwise the filesystem menu's device prompt
Detect ==
    /\ pc = "loop"
    /\ \E printed \in Inventories :
        /\ inventory' = printed
        /\ devices' = detect_usb_devices(printed)
        /\ cmds' = <<Cmd("lsblk", "-d", <<>>, printed.out)>>
        /\ discovery_diag' = detect_diag(printed)
    /\ pc' = IF devices' = <<>> THEN "retry_prompt" ELSE "device_prompt"
    /\ UNCHANGED <<is_root, menu_locals, fs_type, recommended, shown, inp, stages, ret, diag,
                   ending>>

\* "Press Enter to retry detection or 'q' to quit"
RetryPrompt ==
    /\ pc = "retry_prompt"
    /\ \E response \in RetryInputs :
        /\ inp' = response
        /\ IF is_quit(response)
           THEN /\ Exit(0, "quit_retry")
                /\ inventory' = NoInventory
                /\ UNCHANGED <<devices, discovery_diag, diag>>
           ELSE Continue("none")
    /\ UNCHANGED <<is_root, menu_locals>>

\* "Select device number (or 'q' to quit)"
DevicePrompt ==
    /\ pc = "device_prompt"
    /\ \E choice \in DeviceInputs :
        LET sel == select_device(choice, devices)
        IN  /\ inp' = choice
            /\ IF sel.kind = "quit"
               THEN /\ Exit(0, "quit_device")
                    /\ inventory' = NoInventory
                    /\ UNCHANGED <<devices, discovery_diag, selected_device, diag>>
               ELSE IF sel.kind = "selected"
               THEN /\ pc' = "fs_prompt"
                    /\ selected_device' = devices[sel.idx]
                    /\ shown' = [shown EXCEPT !.menu = menu_recommendation(selected_device')]
                    /\ inventory' = NoInventory
                    /\ UNCHANGED <<devices, discovery_diag, diag, fs_type, recommended, cmds,
                                   stages, ret, ending>>
               ELSE /\ Continue(sel.kind)
                    /\ UNCHANGED selected_device
    /\ UNCHANGED <<is_root, menu_fs_type, label>>

\* "Select filesystem (1-5) or 'b' to go back"
FilesystemPrompt ==
    /\ pc = "fs_prompt"
    /\ \E fs_choice \in FsInputs :
        LET sel == select_filesystem(fs_choice)
        IN  /\ inp' = fs_choice
            /\ IF sel.kind = "back"
               THEN /\ Continue("none")
                    /\ UNCHANGED menu_fs_type
               ELSE IF sel.kind = "selected"
               THEN /\ pc' = "label_prompt"
                    /\ menu_fs_type' = sel.fs
                    /\ UNCHANGED <<devices, inventory, discovery_diag, diag, iteration, ending>>
               ELSE /\ Continue(sel.kind)
                    /\ menu_fs_type' = sel.fs
    /\ UNCHANGED <<is_root, selected_device, label>>

\* "Enter volume label (default: OG_USB)", then format_usb is called with
\* the selected device, the filesystem and the label
LabelPrompt ==
    /\ pc = "label_prompt"
    /\ \E entry \in LabelInputs :
        /\ inp' = entry
        /\ label' = select_label(entry)
    /\ pc' = "format_usb"
    /\ fs_type' = menu_fs_type
    /\ UNCHANGED <<is_root, devices, inventory, discovery_diag, selected_device, menu_fs_type, recommended,
                   shown, cmds, stages, ret, diag, ending>>

\* format_usb returned (its value is dropped): "Format another device? (y/n)"
AskAgain ==
    /\ pc = "returned"
    /\ \E again \in AgainInputs :
        /\ inp' = again
        /\ IF declines(again)
           THEN /\ Exit(0, "declined")
                /\ UNCHANGED <<devices, inventory, discovery_diag, diag>>
           ELSE Continue("none")
    /\ UNCHANGED <<is_root, menu_locals>>

\* an exception left format_usb: nothing in show_menu, run or main catches
\* it, and the interpreter ends the process with a traceback and status 1
Uncaught ==
    /\ pc = "raised"
    /\ Exit(1, ret)
    /\ UNCHANGED <<is_root, devices, inventory, discovery_diag, menu_locals, inp, diag>>

\* ------------------------------------------------------------------------
\* format_usb
\* ------------------------------------------------------------------------

\* recommendation when no filesystem was given, the warning, the confirmation
Confirm ==
    /\ pc = "format_usb"
    /\ fs_type' = effective_fs(fs_type, selected_device)
    /\ recommended' = IF not_given(fs_type) THEN fs_type' ELSE None
    /\ shown' = [shown EXCEPT !.fs = get_filesystem_label(fs_type'), !.label = label]
    /\ \E response \in ConfirmInputs :
        /\ inp' = response
        /\ IF confirmed(response)
           THEN /\ pc' = "wipe"
                /\ UNCHANGED <<ret, diag>>
           ELSE /\ pc' = "returned"
                /\ ret' = "False"
                /\ diag' = "cancelled"
    /\ UNCHANGED <<is_root, devices, inventory, discovery_diag, menu_locals, cmds, stages, ending>>

\* a stage ran with result r: record it and move as format_usb does
StageDone(name, r, next) ==
    /\ cmds' = cmds \o r.cmds
    /\ stages' = Append(stages, [stage |-> name, ret |-> r.ret])
    /\ pc' = format_usb_step(r.ret, next).pc
    /\ ret' = format_usb_step(r.ret, next).ret
    /\ diag' = IF ret' = "True" THEN "complete" ELSE r.diag
    /\ UNCHANGED <<is_root, devices, inventory, discovery_diag, menu_locals, fs_type, recommended, shown, inp,
                   ending>>

Wipe ==
    /\ pc = "wipe"
    /\ \E listing \in Listings(selected_device.device) :
       \E umountOuts \in [1..Len(SplitLines(listing.stdout)) -> Outcomes] :
       \E ddOut \in Outcomes, syncOut \in Outcomes :
            StageDone("wipe",
                      wipe_device(selected_device.device, listing, umountOuts, ddOut, syncOut),
                      "partition")

Partition ==
    /\ pc = "partition"
    /\ \E mklabelOut \in Outcomes, mkpartOut \in Outcomes, syncOut \in Outcomes :
            StageDone("partition",
                      create_partition(selected_device.device, mklabelOut, mkpartOut, syncOut),
                      "format")

Format ==
    /\ pc = "format"
    /\ \E mkfsOut \in Outcomes, syncOut \in Outcomes :
            StageDone("format",
                      format_partition(selected_device.device, fs_type, label, mkfsOut, syncOut),
                      "verify")

Verify ==
    /\ pc = "verify"
    /\ \E query \in VerifyQueries :
            StageDone("verify", verify_device(selected_device.device, query), "done")

\* ------------------------------------------------------------------------
\* Specifications
\* ------------------------------------------------------------------------

\* the program as started from main()
Next ==
    \/ Run
    \/ Detect
    \/ RetryPrompt
    \/ DevicePrompt
    \/ FilesystemPrompt
    \/ LabelPrompt
    \/ Confirm
    \/ Wipe
    \/ Partition
    \/ Format
    \/ Verify
    \/ AskAgain
    \/ Uncaught

Spec == Init /\ [][Next]_vars

\* format_usb called on its own, with any device, filesystem tag and label
DirectDevices ==
    {USBDevice(DevPrefix \o n, Bytes(g, r), Unknown) :
        n \in {sdb, mmcblk0}, g \in {3, 4, 31, 32, 33}, r \in {0, 1, BytesPerGB - 1}}

DirectFilesystems ==
    SupportedFilesystems \cup {None, <<>>, btrfs, <<"V", "F", "A", "T">>}

InitFormat ==
    /\ pc = "format_usb"
    /\ is_root = TRUE
    /\ devices = <<>>
    /\ inventory = NoInventory
    /\ selected_device \in DirectDevices
    /\ menu_fs_type = None
    /\ label = DefaultLabel
    /\ fs_type \in DirectFilesystems
    /\ recommended = None
    /\ shown = NothingShown
    /\ inp = <<>>
    /\ cmds = <<>>
    /\ stages = <<>>
    /\ ret = "none"
    /\ discovery_diag = "none"
    /\ diag = "none"
    /\ exit_status = -1
    /\ ended_by = "none"

NextFormat ==
    \/ Confirm
    \/ Wipe
    \/ Partition
    \/ Format
    \/ Verify

SpecFormat == InitFormat /\ [][NextFormat]_vars

\* ------------------------------------------------------------------------
\* Properties
\* ------------------------------------------------------------------------

\* format_usb has read the confirmation and has not yet gone back to show_menu
AfterConfirm == pc \in {"wipe", "partition", "format", "verify", "returned", "raised"}

\* the commands issued since the discovery of this iteration
AfterDiscovery == SelectSeq(cmds, LAMBDA c : c.op # "-d")

\* C1: confirmation gate.  Whenever format_usb has read a response other than
\* the exact string "YES", it has returned False (the cancellation is
\* reported), no stage was invoked and no external command was issued after
\* discovery.
C1_ConfirmationGate ==
    (AfterConfirm /\ inp # YES) =>
        /\ pc = "returned"
        /\ ret = "False"
        /\ diag = "cancelled"
        /\ stages = <<>>
        /\ AfterDiscovery = <<>>

C1_Witness ==
    /\ pc = "returned"
    /\ inp \in {<<"y", "e", "s">>, <<"Y", "E", "S", " ">>}
    /\ ret = "False"
    /\ Len(cmds) = 1

StageOK(name) == [stage |-> name, ret |-> "True"]

\* C2: pipeline ordering.  Wipe is the first stage invoked; Partition is
\* invoked only right after Wipe reported success, Format only right after
\* Partition reported success, Verify only right after Format reported success.
C2_PipelineOrdering ==
    \A i \in 1..Len(stages) :
        /\ stages[i].stage = "wipe" <=> i = 1
        /\ stages[i].stage = "partition" => i > 1 /\ stages[i - 1] = StageOK("wipe")
        /\ stages[i].stage = "format" => i > 1 /\ stages[i - 1] = StageOK("partition")
        /\ stages[i].stage = "verify" => i > 1 /\ stages[i - 1] = StageOK("format")

C2_Witness ==
    /\ Len(stages) = 4
    /\ stages[4].stage = "verify"
    /\ stages[3] = StageOK("format")

AllStagesOK == <<StageOK("wipe"), StageOK("partition"), StageOK("format"), StageOK("verify")>>

\* what holds of format_usb's result in every state
FormatUsbResult ==
    /\ ret = "True" <=> stages = AllStagesOK
    /\ pc = "returned" => (diag = "complete" <=> ret = "True")
    /\ pc = "returned" /\ ret = "True" => inp = YES
    /\ \A i \in 1..Len(stages) :
        stages[i].ret # "True" =>
            /\ i = Len(stages)
            /\ ret = "False"
            /\ ~(pc \in {"wipe", "partition", "format", "verify"})

\* C3 (the claim as stated): format_usb returns True (and prints the
\* completion banner) exactly when the confirmation was "YES" and Wipe,
\* Partition, Format, Verify were invoked in that order and each returned
\* True; once a stage has failed (returned False, or ended without returning
\* True), format_usb returns False, no later stage is invoked, and no
\* further pipeline command is issued (no rollback): the commands stay as
\* they are until the next iteration's discovery.
C3_SuccessIffAllStages ==
    [][FormatUsbResult' /\ (ret = "False" => cmds' = cmds \/ AfterDiscovery' = <<>>)]_vars

\* the commands a stage needs: everything but discovery and the best-effort
\* partition listing and umount of unmount_device
NeededCmd(c) == c.op # "-d" /\ c.op # "-ln" /\ c.tool # "umount"

\* C4 (the claim as stated): whenever a utility a stage needs (dd, sync,
\* parted, mkfs.*, lsblk -f) is missing from the host, the stage that ran it
\* is the last stage invoked, it reported False with a diagnostic, and
\* format_usb returns False.
C4_ToolMissingReported ==
    \A i \in 1..Len(cmds) :
        (NeededCmd(cmds[i]) /\ cmds[i].out = "missing") =>
            /\ i = Len(cmds)
            /\ stages # <<>>
            /\ stages[Len(stages)].ret = "False"
            /\ ret = "False"
            /\ diag # "none"
            /\ pc \in {"returned", "loop", "exited"}

VoluntaryEnds == {"quit_retry", "quit_device", "declined"}

\* C5 (the claim as stated): started with root privilege, the session ends
\* only by 'q' at the retry prompt, 'q' at the device prompt or an answer
\* other than 'y' to "Format another device?"; and every pipeline attempt is
\* followed by that question.
C5_VoluntaryExitOnly ==
    /\ (is_root /\ pc = "exited") => ended_by \in VoluntaryEnds
    /\ (is_root /\ stages # <<>>) => pc # "raised"

\* the Format stage has been invoked in this call of format_usb
FormatInvoked == Len(stages) >= 3 /\ stages[3].stage = "format"

\* C6: whenever the Format stage is invoked with a tag outside {vfat, exfat,
\* ntfs, ext4}, it reports the tag as unsupported and returns False without
\* running any utility (no mkfs.*, no sync: the last command issued is the
\* Partition stage's), and format_usb returns False without invoking Verify.
C6_UnsupportedFilesystemRejected ==
    (FormatInvoked /\ ~(fs_type \in SupportedFilesystems)) =>
        /\ stages[3].ret = "False"
        /\ diag = "unsupported_filesystem"
        /\ \A i \in 1..Len(cmds) : cmds[i].op # "mkfs" /\ cmds[i].op # "-f"
        /\ cmds[Len(cmds)].tool = "time.sleep"
        /\ Len(stages) = 3
        /\ pc = "returned"
        /\ ret = "False"

C6_Witness ==
    /\ FormatInvoked
    /\ fs_type = btrfs
    /\ ret = "False"

\* capacity <= 32 GB, on the size in bytes
AtMost32GB(size) == size.gib < 32 \/ (size.gib = 32 /\ size.rem = 0)

\* C7: whenever format_usb recommends a filesystem, the recommendation is
\* vfat for a capacity of at most 32 GB and exfat above it (4 GB and 32 GB
\* themselves give vfat), never another tag, and it becomes the filesystem
\* of the call.
C7_Recommendation ==
    recommended # None =>
        /\ recommended = IF AtMost32GB(selected_device.size) THEN vfat ELSE exfat
        /\ fs_type = recommended

C7_Witness ==
    /\ recommended = vfat
    /\ selected_device.size = Bytes(32, 0)
    /\ pc = "wipe"

\* the partition path the claim gives for a device path
ExpectedPartition(d) ==
    IF d[Len(d)] \in {"0", "1", "2", "3", "4", "5", "6", "7", "8", "9"}
    THEN d \o <<"p", "1">>
    ELSE d \o <<"1">>

\* C8: the partition that mkfs formats and the partition that the Verify
\* stage queries are both the device path followed by "p1" when it ends in
\* a digit and by "1" otherwise, hence the same partition.
C8_PartitionPath ==
    \A i \in 1..Len(cmds) :
        cmds[i].op \in {"mkfs", "-f"} =>
            cmds[i].target = ExpectedPartition(selected_device.device)

C8_Witness ==
    /\ selected_device.device = DevPrefix \o mmcblk0
    /\ \E i \in 1..Len(cmds) : cmds[i].op = "mkfs" /\ cmds[i].target = DevPrefix \o mmcblk0 \o <<"p", "1">>
    /\ \E i \in 1..Len(cmds) : cmds[i].op = "-f" /\ cmds[i].target = DevPrefix \o mmcblk0 \o <<"p", "1">>

\* C9: without root privilege nothing but the exit happens: no external
\* command is issued, no prompt is reached, no input is read, and the
\* process ends with status 1.
C9_PrivilegeErrorFatal ==
    ~is_root =>
        /\ pc \in {"start", "exited"}
        /\ cmds = <<>>
        /\ inp = <<>>
        /\ devices = <<>>
        /\ pc = "exited" => exit_status = 1 /\ ended_by = "not_root" /\ diag = "requires_root"

C9_Witness ==
    /\ ~is_root
    /\ pc = "exited"
    /\ exit_status = 1

\* the discovery of this iteration failed
DiscoveryFailed == cmds # <<>> /\ cmds[1].op = "-d" /\ cmds[1].out # "ok"

\* C10: when lsblk is missing or exits non-zero at discovery, the device
\* list is empty, a diagnostic is printed, no further command is issued in
\* that iteration, and the session is at the retry prompt, from which the
\* only way out of the session is the operator's 'q'.
C10_DiscoveryFailureNotFatal ==
    DiscoveryFailed =>
        /\ devices = <<>>
        /\ Len(cmds) = 1
        /\ stages = <<>>
        /\ discovery_diag \in {"detect_error", "lsblk_not_found"}
        /\ pc \in {"retry_prompt", "exited"}
        /\ pc = "exited" => ended_by = "quit_retry" /\ exit_status = 0

C10_Witness ==
    /\ DiscoveryFailed
    /\ cmds[1].out = "missing"
    /\ pc = "retry_prompt"

\* the usb entries of an inventory, in inventory order: path and capacity
RECURSIVE UsbEntries(_)
UsbEntries(lines) ==
    IF lines = <<>> THEN <<>>
    ELSE LET l == Head(lines)
         IN  IF l.rest # <<>> /\ l.rest[1] = usb
             THEN <<[device |-> DevPrefix \o l.name, size |-> l.size]>> \o UsbEntries(Tail(lines))
             ELSE UsbEntries(Tail(lines))

\* the device list as paths and capacities
ListedEntries == [i \in 1..Len(devices) |-> [device |-> devices[i].device, size |-> devices[i].size]]

\* C11: after a detection pass that lsblk completed, the device list is
\* exactly the inventory's usb entries in inventory order (so nothing of an
\* earlier pass is carried over and no entry of another transport is
\* listed); after a pass in which lsblk failed, the list is empty.
C11_DeviceListIsUsbInventory ==
    /\ inventory.out = "ok" => ListedEntries = UsbEntries(inventory.lines)
    /\ inventory.out \in {"nonzero", "missing"} => devices = <<>>

C11_Witness ==
    /\ inventory.out = "ok"
    /\ Len(inventory.lines) = 2
    /\ inventory.lines[1].name = sda
    /\ Len(devices) = 1
    /\ devices[1].device = DevPrefix \o sdc
    /\ selected_device.device = DevPrefix \o mmcblk0

\* device entries that are not a number, and the numbers the others denote
NonNumericEntries == {<<"x">>, <<>>, <<"1", "_">>}
NumericEntries ==
    {<<<<"1">>, 1>>, <<<<"2">>, 2>>, <<<<"3">>, 3>>, <<<<"0">>, 0>>, <<<<"-", "1">>, -1>>,
     <<<<" ", "۲", "\r">>, 2>>, <<<<"0", "_", "1">>, 1>>}
OutOfRangeEntry(choice, n) ==
    \E e \in NumericEntries : e[1] = choice /\ (e[2] < 1 \/ e[2] > n)
FilesystemCodes == {<<"1">>, <<"2">>, <<"3">>, <<"4">>, <<"5">>}
InvalidFilesystemCode(c) == c \notin FilesystemCodes \cup {<<"b">>, <<"B">>}
PipelineCmd(c) ==
    \/ c.tool \in {"dd", "parted", "umount", "sync", "time.sleep"}
    \/ c.tool \in {"mkfs.vfat", "mkfs.exfat", "mkfs.ntfs", "mkfs.ext4"}
    \/ c.tool = "lsblk" /\ c.op # "-d"
NothingDone ==
    /\ \A i \in 1..Len(cmds) : ~PipelineCmd(cmds[i])
    /\ stages = <<>>
    /\ shown.fs = None /\ shown.label = None
    /\ ret = "none"

\* C12: a device entry that is not a number, a device number outside the
\* list, or a filesystem code other than 1-5 and b is reported; the iteration
\* in which it is entered has shown no confirmation prompt, run no stage and
\* issued no command besides discovery, and the program goes back to the top
\* of the loop, where it prompts again.
C12_InvalidSelectionHarmless ==
    [][/\ (pc = "device_prompt" /\ inp' \in NonNumericEntries)
            => diag' = "invalid_input" /\ pc' = "loop" /\ NothingDone /\ NothingDone'
       /\ (pc = "device_prompt" /\ OutOfRangeEntry(inp', Len(devices)))
            => diag' = "invalid_selection" /\ pc' = "loop" /\ NothingDone /\ NothingDone'
       /\ (pc = "fs_prompt" /\ InvalidFilesystemCode(inp'))
            => diag' = "invalid_filesystem" /\ pc' = "loop" /\ NothingDone /\ NothingDone'
      ]_vars
C12_Witness ==
    /\ pc = "loop"
    /\ diag = "invalid_filesystem"
    /\ inp = <<"6">>
    /\ selected_device # NoDevice
    /\ Len(devices) = 2
    /\ cmds = <<>>

\* lsblk -f printed its header and the partition's row, and the row's FSTYPE
\* column is empty
NoFilesystemType(stdout) == stdout = <<"NAME FSTYPE", "part">>

\* C13: whenever the filesystem query on the new partition succeeds and shows
\* the partition without a filesystem type, the Verify stage returns False and
\* format_usb returns False.
C13_NoFilesystemFailsVerify ==
    \A i \in 1..Len(cmds) :
        (cmds[i].op = "-f" /\ cmds[i].out = "ok" /\ NoFilesystemType(cmds[i].stdout)) =>
            /\ Len(stages) = 4
            /\ stages[4] = [stage |-> "verify", ret |-> "False"]
            /\ ret = "False"

\* the tag of menu options 1-4
OptionTag(code) ==
    CASE code = <<"1">> -> vfat
      [] code = <<"2">> -> exfat
      [] code = <<"3">> -> ntfs
      [] code = <<"4">> -> ext4
      [] OTHER -> None

\* the filesystem the operator selected: the option's tag, or for option 5
\* the recommendation for the selected device's capacity
SelectedFilesystem ==
    IF menu_fs_type = None
    THEN recommend_filesystem(get_size_gb(selected_device.size))
    ELSE menu_fs_type

MkfsFor(tag) ==
    CASE tag = vfat -> "mkfs.vfat"
      [] tag = exfat -> "mkfs.exfat"
      [] tag = ntfs -> "mkfs.ntfs"
      [] tag = ext4 -> "mkfs.ext4"
      [] OTHER -> "none"

\* C14: options 1, 2, 3, 4 select vfat, exfat, ntfs, ext4 and option 5 selects
\* the recommendation for the selected device's capacity; once format_usb has
\* asked for confirmation, its filesystem is the selected one, the confirmation
\* displayed that filesystem's name, for option 5 the menu displayed the same
\* name, and the mkfs utility run by the Format stage is the one of that
\* filesystem.
C14_SelectedFilesystemIsFormatted ==
    [][/\ (pc = "fs_prompt" /\ inp' \in FilesystemCodes)
            => pc' = "label_prompt" /\ menu_fs_type' = OptionTag(inp')
       /\ (pc = "label_prompt") => fs_type' = menu_fs_type /\ menu_fs_type' = menu_fs_type
       /\ AfterConfirm' =>
            /\ fs_type' = SelectedFilesystem'
            /\ shown'.fs = get_filesystem_label(SelectedFilesystem')
            /\ menu_fs_type' = None => shown'.menu = shown'.fs
            /\ \A i \in 1..Len(cmds') :
                    cmds'[i].op = "mkfs" => cmds'[i].tool = MkfsFor(SelectedFilesystem')
      ]_vars
C14_Witness ==
    /\ pc = "verify"
    /\ menu_fs_type = None
    /\ selected_device.device = DevPrefix \o sdc
    /\ fs_type = exfat
    /\ shown.menu = <<"e", "x", "F", "A", "T">>
    /\ \E i \in 1..Len(cmds) : cmds[i].tool = "mkfs.exfat"

BlankEntries == {<<>>, <<" ", "\f">>}
OG_USB == <<"O", "G", "_", "U", "S", "B">>

\* C15: a blank label entry (empty or only whitespace) gives the label
\* "OG_USB", any other entry gives the entry without its surrounding
\* whitespace; that label is the one the confirmation displays and the one
\* handed to mkfs by the Format stage.
C15_LabelDefault ==
    [][/\ (pc = "label_prompt" /\ inp' \in BlankEntries) => label' = OG_USB
       /\ (pc = "label_prompt" /\ inp' = <<" ", "A", "\r">>) => label' = <<"A">>
       /\ (pc = "label_prompt") => pc' = "format_usb"
       /\ (pc # "label_prompt") => label' = label
       /\ AfterConfirm' =>
            /\ shown'.label = label'
            /\ \A i \in 1..Len(cmds') : cmds'[i].op = "mkfs" => cmds'[i].label = label'
      ]_vars
C15_Witness ==
    /\ pc = "verify"
    /\ label = OG_USB
    /\ shown.label = OG_USB
    /\ \E i \in 1..Len(cmds) : cmds[i].op = "mkfs" /\ cmds[i].label = OG_USB

\* the fixed sequence after the unmount commands
FixedOrder ==
    << <<"dd", "if=/dev/zero">>, <<"sync", "">>, <<"parted", "mklabel gpt">>,
       <<"parted", "mkpart primary 0% 100%">>, <<"sync", "">>, <<"time.sleep", "2">>,
       <<"mkfs", "">>, <<"sync", "">>, <<"lsblk", "-f">> >>
Step(c) == IF c.op = "mkfs" THEN <<"mkfs", "">> ELSE <<c.tool, c.op>>
IsUnmount(c) == c.tool = "umount" \/ (c.tool = "lsblk" /\ c.op = "-ln")
AfterUnmount == SelectSeq(AfterDiscovery, LAMBDA c : ~IsUnmount(c))

\* C16: the commands issued after discovery are the partition listing and the
\* umount commands first, then a prefix of dd, sync, parted mklabel, parted
\* mkpart, sync, pause, mkfs, sync, lsblk -f, each at most once; a command of
\* that sequence that fails is the last one issued; and commands are issued
\* only after the confirmation "YES".
C16_CommandOrder ==
    LET issued == AfterDiscovery
        u == Len(issued) - Len(AfterUnmount)
    IN  /\ \A i \in 1..Len(issued) : IsUnmount(issued[i]) <=> i <= u
        /\ \A i \in 1..u : issued[i].op = "-ln" <=> i = 1
        /\ issued # <<>> => u > 0
        /\ Len(AfterUnmount) <= Len(FixedOrder)
        /\ \A i \in 1..Len(AfterUnmount) :
                /\ Step(AfterUnmount[i]) = FixedOrder[i]
                /\ AfterUnmount[i].out # "ok" => i = Len(AfterUnmount)
        /\ (issued # <<>> /\ AfterConfirm) => inp = YES
C16_Witness ==
    /\ pc = "returned"
    /\ Len(AfterUnmount) = Len(FixedOrder)
    /\ Len(AfterDiscovery) = Len(FixedOrder) + 2
    /\ AfterDiscovery[2].tool = "umount"
    /\ cmds[Len(cmds)].out = "nonzero"

\* the Wipe stage has been invoked in this call of format_usb
WipeInvoked == Len(stages) >= 1 /\ stages[1].stage = "wipe"

\* what the zero-write and the flush alone make of the Wipe stage: True when
\* both succeed, False when the first of them to fail exits non-zero, and the
\* escaping FileNotFoundError when it is missing
WipeOutcome(zero_write) ==
    LET last == zero_write[Len(zero_write)]
    IN  IF Len(zero_write) = 2 /\ last.out = "ok" THEN "True"
        ELSE IF last.out = "nonzero" THEN "False"
        ELSE "FileNotFoundError"

\* C17: once the Wipe stage has been invoked, whatever the partition listing
\* and the umount commands did, dd has been issued right after them; the
\* stage's result is the one dd and sync determine; and no umount names the
\* selected device itself.
C17_UnmountBestEffort ==
    WipeInvoked =>
        /\ AfterUnmount # <<>>
        /\ AfterUnmount[1].tool = "dd"
        /\ AfterUnmount[1].target = selected_device.device
        /\ stages[1].ret = WipeOutcome(SubSeq(AfterUnmount, 1, SetMin({2, Len(AfterUnmount)})))
        /\ \A i \in 1..Len(cmds) :
                cmds[i].tool = "umount" => cmds[i].target # selected_device.device
C17_Witness ==
    /\ WipeInvoked
    /\ stages[1].ret = "True"
    /\ Len(cmds) >= 4
    /\ cmds[2].op = "-ln" /\ cmds[2].out = "nonzero"
    /\ cmds[3].tool = "umount" /\ cmds[3].out = "missing"
    /\ cmds[4].tool = "dd"

\* the step about to be taken handles an invalid menu selection
InvalidSelectionStep ==
    \/ pc = "device_prompt" /\ inp' \in NonNumericEntries
    \/ pc = "device_prompt" /\ OutOfRangeEntry(inp', Len(devices))
    \/ pc = "fs_prompt" /\ InvalidFilesystemCode(inp')

\* the step about to be taken is the detection pass between an invalid menu
\* selection and the prompt that follows it
RescanAfterInvalidSelection ==
    pc = "loop" /\ diag \in {"invalid_input", "invalid_selection", "invalid_filesystem"}

\* C18 (the claim as stated): from the entry of an invalid menu selection to
\* the prompt that follows its handling, the device list and the selected
\* device stay as they were before the input was entered (and with them the
\* privilege flag and the label).
C18_InvalidSelectionFrame ==
    [][(InvalidSelectionStep \/ RescanAfterInvalidSelection) =>
            /\ devices' = devices
            /\ selected_device' = selected_device
            /\ is_root' = is_root
            /\ label' = label
      ]_vars

\* the usb devices a detection pass found: none when lsblk failed
Found(inv) == IF inv.out = "ok" THEN UsbEntries(inv.lines) ELSE <<>>

\* C18 (as amended): reporting an invalid menu selection leaves the device
\* list and the selected device as they were before the input was entered
\* (and with them the privilege flag and the label), and goes to the loop
\* head; the detection pass made there before the operator is prompted again
\* leaves the selected device, the privilege flag and the label alone and
\* replaces the device list by its own: the same list as before when it
\* found the same usb devices, and its own list otherwise.
C18_InvalidSelectionRescans ==
    [][/\ InvalidSelectionStep =>
            /\ devices' = devices
            /\ selected_device' = selected_device
            /\ is_root' = is_root
            /\ label' = label
            /\ pc' = "loop"
       /\ RescanAfterInvalidSelection =>
            /\ selected_device' = selected_device
            /\ is_root' = is_root
            /\ label' = label
            /\ devices' = detect_usb_devices(inventory')
            /\ ListedEntries' = Found(inventory')
            /\ Found(inventory') = ListedEntries => devices' = devices
      ]_vars
C18_Witness ==
    /\ pc = "retry_prompt"
    /\ diag = "invalid_selection"
    /\ inp = <<"3">>
    /\ inventory.out = "ok"
    /\ devices = <<>>
    /\ selected_device # NoDevice

Destructive(c) == c.tool \in {"dd", "parted"} \/ c.op = "mkfs"

\* the partition of a device, "p1" after a name ending in a digit
PartitionOf(device) ==
    IF device[Len(device)] \in Range(Digits) THEN device \o <<"p", "1">> ELSE device \o <<"1">>

\* C19: whenever a destructive command (dd, parted, mkfs.*) has been issued
\* in the current iteration, it names the selected device (mkfs its first
\* partition); that device was selected in this iteration, from the list
\* that this iteration's detection pass, the first command of the iteration,
\* produced; and this iteration's confirmation was answered "YES".
C19_TargetIsCurrentSelection ==
    \A i \in 1..Len(cmds) :
        Destructive(cmds[i]) =>
            /\ cmds[i].target = IF cmds[i].op = "mkfs"
                                THEN PartitionOf(selected_device.device)
                                ELSE selected_device.device
            /\ \E k \in 1..Len(devices) : devices[k] = selected_device
            /\ i > 1
            /\ cmds[1].tool = "lsblk" /\ cmds[1].op = "-d" /\ cmds[1].out = "ok"
            /\ \A j \in 2..Len(cmds) : cmds[j].op # "-d"
            /\ shown.menu # None
            /\ shown.fs # None
            /\ AfterConfirm => inp = YES
C19_Witness ==
    /\ pc = "verify"
    /\ Len(devices) = 2
    /\ selected_device = devices[2]
    /\ selected_device.device = DevPrefix \o mmcblk0
    /\ \E i \in 1..Len(cmds) : cmds[i].op = "mkfs" /\ cmds[i].target = DevPrefix \o mmcblk0 \o <<"p", "1">>
    /\ \E i \in 1..Len(cmds) : cmds[i].tool = "dd" /\ cmds[i].target = DevPrefix \o mmcblk0

ClosedEnumeration ==
    {<<"v", "f", "a", "t">>, <<"e", "x", "f", "a", "t">>, <<"n", "t", "f", "s">>,
     <<"e", "x", "t", "4">>}

\* C20: in the interactive session the filesystem format_usb works with after
\* its confirmation is one of vfat, exfat, ntfs, ext4; the unsupported-
\* filesystem rejection is never reported; and a Format stage that has been
\* invoked has run the mkfs utility on the partition.
C20_SessionTagSupported ==
    /\ AfterConfirm => fs_type \in ClosedEnumeration
    /\ diag # "unsupported_filesystem"
    /\ FormatInvoked =>
            /\ fs_type \in ClosedEnumeration
            /\ \E i \in 1..Len(cmds) : cmds[i].op = "mkfs" /\ cmds[i].tool = MkfsFor(fs_type)
C20_Witness ==
    /\ FormatInvoked
    /\ menu_fs_type = ntfs
    /\ fs_type = ntfs
    /\ stages[3].ret = "False"
    /\ cmds[Len(cmds)].tool = "mkfs.ntfs"
    /\ cmds[Len(cmds)].out = "missing"

====
